---- MODULE Spec2Model ----
(***************************************************************************)
(* A model of the string-input validators: the date-time parsing pipeline  *)
(* (DateTime, processISO8601DateTime, processIdiomaticDateTime,            *)
(* createValue, checkMaxMin, the custom hooks) and TimeOfDay.              *)
(*                                                                         *)
(* Strings are sequences of one-character strings.  An input string is a   *)
(* sequence of lexical tokens (a date phrase, a time phrase, ...), each    *)
(* token carrying the text of the capturing groups the grammar patterns of *)
(* regex-repo extract from it.                                             *)
(***************************************************************************)
EXTENDS Integers, Sequences, FiniteSets, TLC

VARIABLES
  fn,       \* the function being called: "none", "DateTime", "TimeOfDay",
            \* "BooleanString", "Day", "CardNumber", "createValue",
            \* "processIdiomaticDateTime", "processISO8601DateTime"
  pc,       \* the next statement block of the call
  given,    \* the first argument of the call, as the caller passed it
  input,    \* the local `input` of the call, reassigned by its statements
  options,  \* the local `options` of the call
  this,     \* the object the function is called on: <<>> when there is
            \* none, else <<o>>
  passed,   \* the second argument as the caller passed it: <<>> when it is
            \* left out, else <<o>>
  env,      \* the runtime: its local timezone offset in minutes
  heap,     \* the Date objects a created value has handed or can hand to
            \* its caller: the time value of each, in the order of creation
  accessed, \* the accessor calls made on a created value, with their results
  value,    \* the local `value` of the call: <<>> while undefined, else <<v>>
  max,      \* the local `max`, converted in place by the call
  min,      \* the local `min`, converted in place by the call
  result,   \* the outcome of the call
  log       \* the statement blocks executed so far, in order

vars ==
  <<fn, pc, given, input, options, this, passed, env, heap, accessed, value,
    max, min, result, log>>

-----------------------------------------------------------------------------
(* Bounds of the model *)

\* Largest number of time phrases in one idiomatic input string.
MaxTimeTokens == 2

\* Largest number of method calls on one created value.
MaxAccessorCalls == 2

\* Bound instants are taken from day 1..MaxBoundDay of January 2024.
MaxBoundDay == 2

-----------------------------------------------------------------------------
(* JavaScript values *)

\* Then applied to theValue, with theValue evaluated once.
With(theValue, Then(_)) ==
  CHOOSE theResult \in {Then(theOne) : theOne \in {theValue}} : TRUE

\* `undefined` where a string is expected (a capturing group that did not
\* take part in the match, an option that was not given).
undefined == <<"undefined">>

\* An optional number: <<>> is undefined, <<n>> is the number n.
NoNum == <<>>
Num(n) == <<n>>

\* NaN, as a number outside every range the model uses.
NaN == 0 - 1000000000

Digits == <<"0", "1", "2", "3", "4", "5", "6", "7", "8", "9">>

DigitVal(c) == (CHOOSE i \in 1..10 : Digits[i] = c) - 1

IsDigit(c) == \E i \in 1..10 : Digits[i] = c

RECURSIVE ParseDigits(_)
ParseDigits(s) ==
  IF s = <<>> THEN 0
  ELSE 10 * ParseDigits(SubSeq(s, 1, Len(s) - 1)) + DigitVal(s[Len(s)])

\* parseInt(s): an optional sign and the decimal digits that follow.
ParseInt(s) ==
  IF s = undefined \/ s = <<>> THEN NaN
  ELSE IF Head(s) = "-" THEN 0 - ParseDigits(Tail(s))
  ELSE IF Head(s) = "+" THEN ParseDigits(Tail(s))
  ELSE ParseDigits(s)

\* JavaScript truthiness of a string-or-undefined.
Truthy(s) == s # undefined /\ s # <<>>

\* a || b
Or(a, b) == IF Truthy(a) THEN a ELSE b

RECURSIVE Pow10(_)
Pow10(n) == IF n = 0 THEN 1 ELSE 10 * Pow10(n - 1)

\* Fractions of a second are kept exactly, as a count of 10^-FracDigits.
FracDigits == 6
FracUnit == Pow10(FracDigits)

\* Number('0.' + ds)
FracNumber(ds) == ParseDigits(ds) * Pow10(FracDigits - Len(ds))

UpperCase ==
  <<"A", "B", "C", "D", "E", "F", "G", "H", "I", "J", "K", "L", "M",
    "N", "O", "P", "Q", "R", "S", "T", "U", "V", "W", "X", "Y", "Z">>

LowerCase ==
  <<"a", "b", "c", "d", "e", "f", "g", "h", "i", "j", "k", "l", "m",
    "n", "o", "p", "q", "r", "s", "t", "u", "v", "w", "x", "y", "z">>

\* s.toLowerCase()
ToLowerCase(s) ==
  [i \in 1..Len(s) |->
     IF \E j \in 1..26 : UpperCase[j] = s[i]
     THEN LowerCase[CHOOSE j \in 1..26 : UpperCase[j] = s[i]]
     ELSE s[i]]

-----------------------------------------------------------------------------
(* Input strings *)

\* A token: the text of the groups the grammar patterns capture from it.
\*   k     grammar of the phrase: "rfcDay", "us", "intl", "short" (a date
\*         such as 1/1/1 that reads both as US and as international),
\*         "mil", "t12", "t24", "iso", "isoWeek", "isoOrdinal", "word"
\*   sign  sign written before the year ('' when there is none)
\*   y mo d  year, month (digits or 3-letter name), day
\*   eod   the special end-of-day text ('2400', '24:00') when it was written
\*   h fh mi fm s f  hours, fraction of hour, minutes, fraction of minute,
\*         seconds, fraction of second
\*   ap    am/pm indicator
\*   tz    timezone written after the time
Blank ==
  [k |-> "word", sign |-> undefined, y |-> undefined, mo |-> undefined,
   d |-> undefined, eod |-> undefined, h |-> undefined, fh |-> undefined,
   mi |-> undefined, fm |-> undefined, s |-> undefined, f |-> undefined,
   ap |-> undefined, tz |-> undefined]

Y2024 == <<"2", "0", "2", "4">>

\* '2 Jan 2024', '01/02/2024', '01/02/-2024', '2024/01/02', '1/1/1'
DateTokens ==
  { [Blank EXCEPT !.k = "rfcDay", !.d = <<"2">>, !.mo = <<"J", "a", "n">>,
                  !.y = Y2024],
    [Blank EXCEPT !.k = "us", !.mo = <<"0", "1">>, !.d = <<"0", "2">>,
                  !.sign = <<>>, !.y = Y2024],
    [Blank EXCEPT !.k = "us", !.mo = <<"0", "1">>, !.d = <<"0", "2">>,
                  !.sign = <<"-">>, !.y = Y2024],
    [Blank EXCEPT !.k = "intl", !.sign = <<>>, !.y = Y2024,
                  !.mo = <<"0", "1">>, !.d = <<"0", "2">>],
    [Blank EXCEPT !.k = "short", !.sign = <<>>, !.mo = <<"1">>, !.d = <<"1">>,
                  !.y = <<"1">>] }

\* '2400', '1300', '12:30 PM', '1:00 am', '24:00', '12:30:40.5'
BareTimeTokens ==
  { [Blank EXCEPT !.k = "mil", !.eod = <<"2", "4", "0", "0">>],
    [Blank EXCEPT !.k = "mil", !.h = <<"1", "3">>, !.mi = <<"0", "0">>],
    [Blank EXCEPT !.k = "t12", !.h = <<"1", "2">>, !.mi = <<"3", "0">>,
                  !.ap = <<"P", "M">>],
    [Blank EXCEPT !.k = "t12", !.h = <<"1">>, !.mi = <<"0", "0">>,
                  !.ap = <<"a", "m">>],
    [Blank EXCEPT !.k = "t24", !.eod = <<"2", "4", ":", "0", "0">>],
    [Blank EXCEPT !.k = "t24", !.h = <<"1", "2">>, !.mi = <<"3", "0">>,
                  !.s = <<"4", "0">>, !.f = <<"5">>] }

TzMinus0230 == <<"-", "0", "2", "3", "0">>
TzPlus0100 == <<"+", "0", "1", "0", "0">>
TzZ == <<"Z">>

\* A time phrase, alone or followed by a timezone.
TimeTokens ==
  { [t EXCEPT !.tz = z] : t \in BareTimeTokens, z \in {undefined, TzMinus0230} }

\* '2024-01-02T12:30:40.50Z', '2024-01-02T24:00:00Z', '2024-01-02T12.5Z',
\* '2024-01-02T12:30.5' and '2024-01-02T12:30' (no timezone),
\* '2024-01-02T12.02Z', '2024-01-02T12:30:40.123456Z',
\* '2024-W01-2' (week of year), '2024-002' (day of year)
IsoDate == [Blank EXCEPT !.k = "iso", !.y = Y2024, !.mo = <<"0", "1">>,
                         !.d = <<"0", "2">>]
IsoTokens ==
  { [IsoDate EXCEPT !.h = <<"1", "2">>, !.mi = <<"3", "0">>, !.s = <<"4", "0">>,
                    !.f = <<"5", "0">>, !.tz = TzZ],
    [IsoDate EXCEPT !.eod = <<"2", "4", ":", "0", "0", ":", "0", "0">>,
                    !.tz = TzZ],
    [IsoDate EXCEPT !.h = <<"1", "2">>, !.fh = <<"5">>, !.tz = TzZ],
    [IsoDate EXCEPT !.h = <<"1", "2">>, !.mi = <<"3", "0">>, !.fm = <<"5">>],
    [IsoDate EXCEPT !.h = <<"1", "2">>, !.mi = <<"3", "0">>],
    [IsoDate EXCEPT !.h = <<"1", "2">>, !.fh = <<"0", "2">>, !.tz = TzZ],
    [IsoDate EXCEPT !.h = <<"1", "2">>, !.mi = <<"3", "0">>, !.s = <<"4", "0">>,
                    !.f = <<"1", "2", "3", "4", "5", "6">>, !.tz = TzZ],
    [Blank EXCEPT !.k = "isoWeek", !.y = Y2024],
    [Blank EXCEPT !.k = "isoOrdinal", !.y = Y2024] }

\* 'Tue, 2 Jan 2024 12:30:40 +0100'
Rfc2822Token ==
  [Blank EXCEPT !.k = "rfc2822", !.d = <<"2">>, !.mo = <<"J", "a", "n">>,
                !.y = Y2024, !.h = <<"1", "2">>, !.mi = <<"3", "0">>,
                !.s = <<"4", "0">>, !.tz = TzPlus0100]

RECURSIVE TimeRuns(_)
\* Up to n time phrases in a row.
TimeRuns(n) ==
  IF n = 0 THEN {<<>>}
  ELSE TimeRuns(n - 1)
       \cup {Append(r, t) : r \in {q \in TimeRuns(n - 1) : Len(q) = n - 1},
                            t \in TimeTokens}

\* Idiomatic text: an optional date phrase, then time phrases.
IdiomaticTexts ==
  {d \o r : d \in {<<>>} \cup {<<t>> : t \in DateTokens},
            r \in TimeRuns(MaxTimeTokens)}

\* An input: its typeof ("undefined", "null" for null, "number", "string")
\* and, for a string, whether white space surrounds the text, and the text:
\* its tokens for the functions that read dates and times, its characters
\* for the others.
StringInput(toks) == [type |-> "string", pad |-> FALSE, toks |-> toks]

PaddedInput(toks) == [type |-> "string", pad |-> TRUE, toks |-> toks]

\* Inputs that are not strings.
NonStrings ==
  {[type |-> t, pad |-> FALSE, toks |-> <<>>] :
     t \in {"undefined", "null", "number"}}

\* input.trim()
Trim(in) == [in EXCEPT !.pad = FALSE]

-----------------------------------------------------------------------------
(* Pattern matching: input.match(re).  A match is the sequence of its      *)
(* capturing groups; <<>> is null (no match).  A pattern without anchors   *)
(* matches the first phrase of its grammar anywhere in the input.          *)

\* m?.[i]
G(m, i) == IF m = <<>> THEN undefined ELSE m[i]

\* The first token of the input whose grammar is in kinds, as <<tok>>.
FirstOf(toks, kinds) ==
  LET hits == {i \in 1..Len(toks) : toks[i].k \in kinds}
  IN IF hits = {} THEN <<>>
     ELSE <<toks[CHOOSE i \in hits : \A j \in hits : i <= j]>>

\* input.match(milTimeRE): groups 1 '2400', 2 hours, 3 minutes, 4 timezone
MilTimeMatch(toks) ==
  LET t == FirstOf(toks, {"mil"})
  IN IF t = <<>> THEN <<>> ELSE <<t[1].eod, t[1].h, t[1].mi, t[1].tz>>

\* input.match(timeRE): groups 1 hours, 2 minutes, 3 seconds, 4 fraction,
\* 5 am/pm, 6 timezone
TimeMatch(toks) ==
  LET t == FirstOf(toks, {"t12"})
  IN IF t = <<>> THEN <<>>
     ELSE <<t[1].h, t[1].mi, t[1].s, t[1].f, t[1].ap, t[1].tz>>

\* input.match(twentyFourHourTimeRE): groups 1 '24:00', 2 hours, 3 minutes,
\* 4 seconds, 5 fraction, 6 timezone
TwentyFourHourTimeMatch(toks) ==
  LET t == FirstOf(toks, {"t24"})
  IN IF t = <<>> THEN <<>>
     ELSE <<t[1].eod, t[1].h, t[1].mi, t[1].s, t[1].f, t[1].tz>>

\* input.match(rfc2822DayRE): groups 2 day, 3 month name, 4 year
Rfc2822DayMatch(toks) ==
  LET t == FirstOf(toks, {"rfcDay"})
  IN IF t = <<>> THEN <<>> ELSE <<undefined, t[1].d, t[1].mo, t[1].y>>

\* input.match(usDateRE): groups 1 month, 2 day, 3 sign, 4 year
UsDateMatch(toks) ==
  LET t == FirstOf(toks, {"us", "short"})
  IN IF t = <<>> THEN <<>> ELSE <<t[1].mo, t[1].d, t[1].sign, t[1].y>>

\* input.match(intlDateRE): groups 1 sign, 2 year, 3 month, 4 day.  The
\* three numbers of a "short" date a/b/c are read as year a, month b, day c.
IntlDateMatch(toks) ==
  LET t == FirstOf(toks, {"intl", "short"})
  IN IF t = <<>> THEN <<>>
     ELSE IF t[1].k = "short" THEN <<t[1].sign, t[1].mo, t[1].d, t[1].y>>
     ELSE <<t[1].sign, t[1].y, t[1].mo, t[1].d>>

\* input.match(iso8601DateTimeRe), a pattern of the whole string: groups
\* 1 year, 3 month, 4 day, 5 week of year, 7 day of year, 8 end of day,
\* 10 hours, 11 fraction of hour, 13 minutes, 14 fraction of minute,
\* 15 seconds, 16 fraction of second, 17 timezone
Iso8601Match(toks) ==
  IF Len(toks) = 1 /\ toks[1].k \in {"iso", "isoWeek", "isoOrdinal"}
  THEN LET t == toks[1]
       IN <<t.y, undefined, t.mo, t.d,
            IF t.k = "isoWeek" THEN <<"0", "1">> ELSE undefined, undefined,
            IF t.k = "isoOrdinal" THEN <<"0", "0", "2">> ELSE undefined,
            t.eod, undefined, t.h, t.fh, undefined, t.mi, t.fm, t.s, t.f,
            t.tz>>
  ELSE <<>>

\* input.match(rfc2822DateRe), a pattern of the whole string: groups 1 day,
\* 2 month name, 3 year, 4 hours, 5 minutes, 6 seconds, 7 timezone
Rfc2822Match(toks) ==
  IF Len(toks) = 1 /\ toks[1].k = "rfc2822"
  THEN LET t == toks[1] IN <<t.d, t.mo, t.y, t.h, t.mi, t.s, t.tz>>
  ELSE <<>>

-----------------------------------------------------------------------------
(* Errors and results *)

\* An error: its class, argumentName, issue, status and, for an out-of-range
\* error, the violated bound it carries as argumentValue (<<>> otherwise).
Error(kind, name, issue, status, bound) ==
  [kind |-> kind, name |-> name, issue |-> issue, status |-> status,
   bound |-> bound]

NoErr == Error("", <<>>, "", NoNum, <<>>)

\* new ArgumentInvalidError({ argumentName, issue, status })
ArgumentInvalidError(name, issue, status) ==
  Error("ArgumentInvalidError", name, issue, status, <<>>)

\* The outcome of a function: a returned value, <<v>> (<<>> is undefined),
\* or a thrown error.
Return(v) == [threw |-> FALSE, v |-> v, err |-> NoErr]
Throw(e) == [threw |-> TRUE, v |-> <<>>, err |-> e]

-----------------------------------------------------------------------------
(* Timezones *)

\* getTimezoneOffset(options, [..., timezone]): 'Z' is 0, '+HHMM' / '-HH:MM'
\* is the signed number of minutes, undefined stays undefined.
GetTimezoneOffset(timezone) ==
  IF timezone = undefined THEN NoNum
  ELSE IF timezone = TzZ THEN Num(0)
  ELSE LET ds == SelectSeq(timezone, IsDigit)
           minutes == 60 * ParseDigits(SubSeq(ds, 1, 2))
                      + ParseDigits(SubSeq(ds, 3, 4))
       IN Num(IF Head(timezone) = "-" THEN 0 - minutes ELSE minutes)

MonthNames ==
  << <<"j", "a", "n">>, <<"f", "e", "b">>, <<"m", "a", "r">>,
     <<"a", "p", "r">>, <<"m", "a", "y">>, <<"j", "u", "n">>,
     <<"j", "u", "l">>, <<"a", "u", "g">>, <<"s", "e", "p">>,
     <<"o", "c", "t">>, <<"n", "o", "v">>, <<"d", "e", "c">> >>

\* The first letter of a month name, lower-cased.
LowerInitial(s) ==
  [i \in 1..Len(s) |->
     IF i = 1
     THEN CASE s[i] = "J" -> "j" [] s[i] = "F" -> "f" [] s[i] = "M" -> "m"
            [] s[i] = "A" -> "a" [] s[i] = "S" -> "s" [] s[i] = "O" -> "o"
            [] s[i] = "N" -> "n" [] s[i] = "D" -> "d" [] OTHER -> s[i]
     ELSE s[i]]

\* convertMonthName(monthName): 1 for 'Jan' ... 12 for 'Dec'
ConvertMonthName(monthName) ==
  CHOOSE i \in 1..12 : MonthNames[i] = LowerInitial(monthName)

-----------------------------------------------------------------------------
(* processIdiomaticDateTime *)

Count(m) == IF m # <<>> THEN 1 ELSE 0

\* timeMatches
TimeMatches(toks) ==
  Count(MilTimeMatch(toks)) + Count(TimeMatch(toks))
  + Count(TwentyFourHourTimeMatch(toks))

\* dayMatches counted without the international pattern.
DayMatchesOfTwo(toks) ==
  Count(Rfc2822DayMatch(toks)) + Count(UsDateMatch(toks))

\* dayMatches
DayMatches(toks) ==
  Count(Rfc2822DayMatch(toks)) + Count(UsDateMatch(toks))
  + Count(IntlDateMatch(toks))

IdiomaticYear(toks) ==
  LET ceIndicator == Or(G(UsDateMatch(toks), 3),
                        Or(G(IntlDateMatch(toks), 1), <<>>))
  IN ParseInt(ceIndicator
              \o Or(G(Rfc2822DayMatch(toks), 4),
                    Or(G(UsDateMatch(toks), 4), G(IntlDateMatch(toks), 2))))

IdiomaticMonth(toks) ==
  IF Rfc2822DayMatch(toks) # <<>>
  THEN ConvertMonthName(Rfc2822DayMatch(toks)[3])
  ELSE ParseInt(Or(G(UsDateMatch(toks), 1), G(IntlDateMatch(toks), 3)))

IdiomaticDay(toks) ==
  ParseInt(Or(G(Rfc2822DayMatch(toks), 2),
              Or(G(UsDateMatch(toks), 2), G(IntlDateMatch(toks), 4))))

\* isEOD
IdiomaticIsEOD(toks) ==
  G(MilTimeMatch(toks), 1) # undefined
  \/ G(TwentyFourHourTimeMatch(toks), 1) # undefined

\* hours, when the time is not the end of day
IdiomaticHours(toks) ==
  LET timeMatch == TimeMatch(toks)
      parsed == ParseInt(Or(G(MilTimeMatch(toks), 2),
                            Or(G(timeMatch, 1),
                               G(TwentyFourHourTimeMatch(toks), 2))))
      hours == IF timeMatch # <<>>
               THEN parsed + (IF ToLowerCase(timeMatch[5]) = <<"a", "m">>
                              THEN 0 ELSE 12)
               ELSE parsed
  IN IF timeMatch # <<>> /\ hours = 24 THEN 0 ELSE hours

IdiomaticMinutes(toks) ==
  ParseInt(Or(G(MilTimeMatch(toks), 3),
              Or(G(TimeMatch(toks), 2), G(TwentyFourHourTimeMatch(toks), 3))))

\* Seconds read from the 12-hour match only.
IdiomaticSecondsOfTwelveHour(toks) ==
  ParseInt(Or(G(TimeMatch(toks), 3), <<"0">>))

IdiomaticSeconds(toks) ==
  ParseInt(Or(G(TimeMatch(toks), 3),
              Or(G(TwentyFourHourTimeMatch(toks), 4), <<"0">>)))

IdiomaticFractionalSeconds(toks) ==
  FracNumber(Or(G(TimeMatch(toks), 4),
                Or(G(TwentyFourHourTimeMatch(toks), 5), <<"0">>)))

\* A timezone resolution that puts localTimezone before the captured tokens.
LocalTimezoneFirst(toks, localTimezone) ==
  Or(localTimezone,
     Or(G(MilTimeMatch(toks), 4),
        Or(G(TimeMatch(toks), 6), G(TwentyFourHourTimeMatch(toks), 6))))

\* timezone
IdiomaticTimezone(toks, localTimezone) ==
  Or(G(MilTimeMatch(toks), 4),
     Or(G(TimeMatch(toks), 6),
        Or(G(TwentyFourHourTimeMatch(toks), 6), localTimezone)))

\* The 9-tuple an extractor returns.
Tuple(year, month, day, isEod, hours, minutes, seconds, frac, tzo) ==
  [year |-> year, month |-> month, day |-> day, isEod |-> isEod,
   hours |-> hours, minutes |-> minutes, seconds |-> seconds,
   fracSeconds |-> frac, timezoneOffset |-> tzo]

IdiomaticTuple(toks, localTimezone) ==
  LET isEOD == IdiomaticIsEOD(toks)
  IN Tuple(IdiomaticYear(toks), IdiomaticMonth(toks), IdiomaticDay(toks),
           isEOD,
           IF isEOD THEN 24 ELSE IdiomaticHours(toks),
           IF isEOD THEN 0 ELSE IdiomaticMinutes(toks),
           IF isEOD THEN 0 ELSE IdiomaticSeconds(toks),
           IF isEOD THEN 0 ELSE IdiomaticFractionalSeconds(toks),
           GetTimezoneOffset(IdiomaticTimezone(toks, localTimezone)))

NoTimeIssue == "does not contain a recognizable time component"
NoDateIssue == "does not contain a recognizable date component"
AmbiguousIssue == "date component is ambiguous"

\* An extractor that counts the date matches before the time matches.
ProcessIdiomaticDateTimeDateFirst(opts, toks, localTimezone) ==
  IF DayMatches(toks) = 0
  THEN Throw(ArgumentInvalidError(opts.name, NoDateIssue, opts.status))
  ELSE IF DayMatches(toks) > 1
  THEN Throw(ArgumentInvalidError(opts.name, AmbiguousIssue, opts.status))
  ELSE IF TimeMatches(toks) = 0
  THEN Throw(ArgumentInvalidError(opts.name, NoTimeIssue, opts.status))
  ELSE Return(<<IdiomaticTuple(toks, localTimezone)>>)

ProcessIdiomaticDateTime(opts, toks, localTimezone) ==
  IF TimeMatches(toks) = 0
  THEN Throw(ArgumentInvalidError(opts.name, NoTimeIssue, opts.status))
  ELSE IF DayMatches(toks) = 0
  THEN Throw(ArgumentInvalidError(opts.name, NoDateIssue, opts.status))
  ELSE IF DayMatches(toks) > 1
  THEN Throw(ArgumentInvalidError(opts.name, AmbiguousIssue, opts.status))
  ELSE Return(<<IdiomaticTuple(toks, localTimezone)>>)

-----------------------------------------------------------------------------
(* Numbers with a fraction: IEEE 754 binary64.  A positive number is its 53 *)
(* significand bits m, most significant first, and the exponent e of the   *)
(* first bit: the number is the sum of m[i] * 2^(e - i + 1).               *)

Double(m, e) == [m |-> m, e |-> e]

Zero == Double(<<>>, 0)

RECURSIVE Zeros(_)
Zeros(n) == IF n <= 0 THEN <<>> ELSE Append(Zeros(n - 1), 0)

\* bits + 1, for bits that are not all ones
Increment(bits) ==
  LET last == CHOOSE i \in 1..Len(bits) :
                /\ bits[i] = 0
                /\ \A j \in (i + 1)..Len(bits) : bits[j] = 1
  IN With(last,
          LAMBDA k : SubSeq(bits, 1, k - 1) \o <<1>> \o Zeros(Len(bits) - k))

\* The binary64 nearest to the number whose bits (first bit 1, exponent e)
\* are given in full: round to nearest, ties to even.
Round53(bits, e) ==
  IF Len(bits) <= 53 THEN Double(bits \o Zeros(53 - Len(bits)), e)
  ELSE LET up == /\ bits[54] = 1
                 /\ \/ bits[53] = 1
                    \/ \E i \in 55..Len(bits) : bits[i] = 1
       IN IF ~up THEN Double(SubSeq(bits, 1, 53), e)
          ELSE IF \A i \in 1..53 : bits[i] = 1
          THEN Double(<<1>> \o Zeros(52), e + 1)
          ELSE With(SubSeq(bits, 1, 53), LAMBDA kept : Double(Increment(kept), e))

RECURSIVE BinaryDigits(_, _, _)
\* The first n binary digits of r / d (r < d), then 1 if digits remain.
BinaryDigits(r, d, n) ==
  IF n = 0 THEN <<IF r = 0 THEN 0 ELSE 1>>
  ELSE <<(2 * r) \div d>> \o BinaryDigits((2 * r) % d, d, n - 1)

RECURSIVE LeadingZeros(_, _)
\* The number of zeros that start the binary digits of r / d (0 < r < d).
LeadingZeros(r, d) == IF 2 * r >= d THEN 0 ELSE 1 + LeadingZeros(2 * r, d)

RECURSIVE Pow2(_)
Pow2(n) == IF n = 0 THEN 1 ELSE 2 * Pow2(n - 1)

\* Number('0.' + ds)
NumberOfFraction(ds) ==
  With(<<ParseDigits(ds), Pow10(Len(ds))>>,
       LAMBDA rd :
         IF rd[1] = 0 THEN Zero
         ELSE With(LeadingZeros(rd[1], rd[2]),
                   LAMBDA z : With(BinaryDigits(rd[1] * Pow2(z), rd[2], 54),
                                   LAMBDA bits : Round53(bits, 0 - 1 - z))))

RECURSIVE ToBits(_)
\* The binary digits of n, most significant first
ToBits(n) == IF n < 2 THEN <<n>> ELSE Append(ToBits(n \div 2), n % 2)

\* The last w binary digits of n < 2^w
FixedBits(n, w) == With(ToBits(n), LAMBDA low : Zeros(w - Len(low)) \o low)

RECURSIVE BitsValue(_)
BitsValue(bits) ==
  IF bits = <<>> THEN 0
  ELSE With(SubSeq(bits, 1, Len(bits) - 1),
            LAMBDA front : 2 * BitsValue(front) + bits[Len(bits)])

Chunk(bits, from, to) == With(SubSeq(bits, from, to), LAMBDA part : BitsValue(part))

\* c * x for a small whole c, rounded to nearest, ties to even.
Times(c, x) ==
  IF x.m = <<>> THEN Zero
  ELSE With(c * Chunk(x.m, 41, 53), LAMBDA p0 :
       With(c * Chunk(x.m, 28, 40) + p0 \div Pow2(13), LAMBDA p1 :
       With(c * Chunk(x.m, 15, 27) + p1 \div Pow2(13), LAMBDA p2 :
       With(c * Chunk(x.m, 1, 14) + p2 \div Pow2(13), LAMBDA p3 :
       With(ToBits(p3) \o FixedBits(p2 % Pow2(13), 13)
              \o FixedBits(p1 % Pow2(13), 13) \o FixedBits(p0 % Pow2(13), 13),
            LAMBDA p : Round53(p, x.e + Len(p) - 53))))))

Trunc(x) ==
  IF x.m = <<>> \/ x.e < 0 THEN 0
  ELSE With(SubSeq(x.m, 1, x.e + 1), LAMBDA whole : BitsValue(whole))

\* x % 1
Mod1(x) ==
  IF x.m = <<>> \/ x.e < 0 THEN x
  ELSE With(SubSeq(x.m, x.e + 2, 53),
            LAMBDA rest :
              IF \A i \in 1..Len(rest) : rest[i] = 0 THEN Zero
              ELSE With(CHOOSE i \in 1..Len(rest) :
                          /\ rest[i] = 1
                          /\ \A j \in 1..(i - 1) : rest[j] = 0,
                        LAMBDA first : Round53(SubSeq(rest, first, Len(rest)),
                                               0 - first)))

\* Math.round(x): the nearest integer, a half rounded up
MathRound(x) ==
  Trunc(x) + (IF x.m # <<>> /\ x.e + 2 \in 1..53 THEN x.m[x.e + 2] ELSE 0)

-----------------------------------------------------------------------------
(* processISO8601DateTime *)

fracSecondsPrecision == 100000

\* roundFracSeconds(realSeconds):
\* Math.round((realSeconds % 1) * fracSecondsPrecision) / fracSecondsPrecision
\* counted in 1 / FracUnit
RoundFracSeconds(realSeconds) ==
  With(Mod1(realSeconds),
       LAMBDA rest : With(Times(fracSecondsPrecision, rest),
                          LAMBDA scaled : MathRound(scaled)))
    * (FracUnit \div fracSecondsPrecision)

\* parseInt(s) || 1
ParseIntOr1(s) ==
  IF ParseInt(s) = NaN \/ ParseInt(s) = 0 THEN 1 ELSE ParseInt(s)

IsoIsEod(m) == m[8] # undefined

IsoHours(m) == IF IsoIsEod(m) THEN 24 ELSE ParseInt(m[10])

\* <<minutes, seconds, fracSeconds>>
IsoMinutesSeconds(m) ==
  IF m[11] = undefined /\ m[13] = undefined /\ m[15] = undefined
  THEN <<0, 0, 0>>
  ELSE IF m[11] # undefined
  THEN With(With(m[11], LAMBDA digits : NumberOfFraction(digits)),
            LAMBDA fracHours :
              With(Times(60, fracHours),
                   LAMBDA realMinutes :
                     With(Mod1(realMinutes),
                          LAMBDA fracMinutes :
                            With(Times(60, fracMinutes),
                                 LAMBDA realSeconds :
                                   <<Trunc(realMinutes), Trunc(realSeconds),
                                     RoundFracSeconds(realSeconds)>>))))
  ELSE IF m[14] = undefined /\ m[15] = undefined
  THEN <<ParseInt(m[13]), 0, 0>>
  ELSE IF m[14] # undefined
  THEN With(With(m[14], LAMBDA digits : NumberOfFraction(digits)),
            LAMBDA fracMinutes :
              With(Times(60, fracMinutes),
                   LAMBDA realSeconds :
                     <<ParseInt(m[13]), Trunc(realSeconds),
                       RoundFracSeconds(realSeconds)>>))
  ELSE <<ParseInt(m[13]), ParseInt(m[15]),
         IF m[16] = undefined THEN 0 ELSE FracNumber(m[16])>>

\* timezone
IsoTimezone(m, localTimezone) == Or(m[17], localTimezone)

WeekIssue == "does not support week of year style dates"
OrdinalIssue == "does not support day of year/ordinal/Julian style dates"

\* An extractor that reads a week date and an ordinal date as a calendar date.
ProcessISO8601DateTimeOfAnyDate(opts, m, localTimezone) ==
  With(IsoMinutesSeconds(m),
       LAMBDA mss :
         Return(<<Tuple(ParseInt(m[1]), ParseIntOr1(m[3]), ParseIntOr1(m[4]),
                        IsoIsEod(m), IsoHours(m), mss[1], mss[2], mss[3],
                        GetTimezoneOffset(IsoTimezone(m, localTimezone)))>>))

ProcessISO8601DateTime(opts, m, localTimezone) ==
  IF m[5] # undefined
  THEN Throw(ArgumentInvalidError(opts.name, WeekIssue, opts.status))
  ELSE IF m[7] # undefined
  THEN Throw(ArgumentInvalidError(opts.name, OrdinalIssue, opts.status))
  ELSE With(IsoMinutesSeconds(m),
            LAMBDA mss :
              Return(<<Tuple(ParseInt(m[1]), ParseIntOr1(m[3]),
                             ParseIntOr1(m[4]), IsoIsEod(m), IsoHours(m),
                             mss[1], mss[2], mss[3],
                             GetTimezoneOffset(IsoTimezone(m, localTimezone)))>>))

\* processRFC2822DateTime(options, rfc2822Match, localTimezone)
ProcessRFC2822DateTime(opts, m, localTimezone) ==
  Return(<<Tuple(ParseInt(m[3]), ConvertMonthName(m[2]), ParseInt(m[1]),
                 FALSE, ParseInt(m[4]), ParseInt(m[5]), ParseInt(m[6]), 0,
                 GetTimezoneOffset(Or(m[7], localTimezone)))>>)

-----------------------------------------------------------------------------
(* Dates: the native Date object.  A number too large for one machine     *)
(* integer is kept as [hi, lo], ordered by hi and then lo.  The time value *)
(* of a Date has hi = whole days since 1970-01-01 UTC and lo = the         *)
(* milliseconds into that day.                                             *)

MsPerDay == 24 * 60 * 60 * 1000

\* Days from 1970-01-01 to year-month-day of the proleptic Gregorian calendar.
DaysFromCivil(year, month, day) ==
  LET y == IF month <= 2 THEN year - 1 ELSE year
      era == y \div 400
      yoe == y - era * 400
      mp == IF month > 2 THEN month - 3 ELSE month + 9
      doy == (153 * mp + 2) \div 5 + day - 1
      doe == yoe * 365 + yoe \div 4 - yoe \div 100 + doy
  IN era * 146097 + doe - 719468

\* <<year, month, day>> of a day number.
CivilFromDays(days) ==
  LET z == days + 719468
      era == z \div 146097
      doe == z - era * 146097
      yoe == (doe - doe \div 1460 + doe \div 36524 - doe \div 146096) \div 365
      doy == doe - (365 * yoe + yoe \div 4 - yoe \div 100)
      mp == (5 * doy + 2) \div 153
      d == doy - (153 * mp + 2) \div 5 + 1
      m == IF mp < 10 THEN mp + 3 ELSE mp - 9
  IN <<IF m <= 2 THEN yoe + era * 400 + 1 ELSE yoe + era * 400, m, d>>

Instant(day, ms) == [hi |-> day + ms \div MsPerDay, lo |-> ms % MsPerDay]

\* The Invalid Date: its time value is NaN.
InvalidDate == [hi |-> NaN, lo |-> 0]

\* a < b on numbers; every comparison with NaN is false
Less(a, b) ==
  /\ a.hi # NaN
  /\ b.hi # NaN
  /\ (a.hi < b.hi \/ (a.hi = b.hi /\ a.lo < b.lo))

\* The UTC fields of a Date with getUTCMonth() left as the month index.
UTCFieldsMonthIndex(date) ==
  With(CivilFromDays(date.hi),
       LAMBDA ymd : <<ymd[1], ymd[2] - 1, ymd[3], date.lo \div 3600000,
                      (date.lo \div 60000) % 60, (date.lo \div 1000) % 60,
                      (date.lo % 1000) * (FracUnit \div 1000)>>)

\* The UTC fields of a Date: getUTCFullYear(), getUTCMonth() + 1,
\* getUTCDate(), getUTCHours(), getUTCMinutes(), getUTCSeconds(),
\* getUTCMilliseconds() / 1000 (counted in 1 / FracUnit)
UTCFields(date) ==
  With(CivilFromDays(date.hi),
       LAMBDA ymd : <<ymd[1], ymd[2], ymd[3], date.lo \div 3600000,
                      (date.lo \div 60000) % 60, (date.lo \div 1000) % 60,
                      (date.lo % 1000) * (FracUnit \div 1000)>>)

-----------------------------------------------------------------------------
(* The canonical string 'YYYY-MM-DD HH:MM:SS.fff+HHMM'                     *)

RECURSIVE ToDigits(_)
\* '' + n for n >= 0
ToDigits(n) ==
  IF n < 10 THEN <<Digits[n + 1]>>
  ELSE Append(ToDigits(n \div 10), Digits[(n % 10) + 1])

RECURSIVE PadStart(_, _)
\* s.padStart(width, '0')
PadStart(s, width) == IF Len(s) >= width THEN s ELSE PadStart(<<"0">> \o s, width)

RECURSIVE StripZeros(_)
StripZeros(s) ==
  IF s # <<>> /\ s[Len(s)] = "0" THEN StripZeros(SubSeq(s, 1, Len(s) - 1)) ELSE s

\* The digits after the decimal point of a fraction counted in 1 / FracUnit;
\* undefined when there are none (the number is 0 or 1).
FracDigitsOf(frac) ==
  IF frac % FracUnit = 0 THEN undefined
  ELSE StripZeros(PadStart(ToDigits(frac), FracDigits))

\* convertTimezoneOffsetToString(timezoneOffset): '+HHMM' / '-HHMM'; the
\* runtime's own offset stands in for an undefined one.
ConvertTimezoneOffsetToString(timezoneOffset, localOffset) ==
  LET off == IF timezoneOffset = NoNum THEN localOffset ELSE timezoneOffset[1]
      abs == IF off < 0 THEN 0 - off ELSE off
  IN <<IF off < 0 THEN "-" ELSE "+">>
     \o PadStart(ToDigits(abs \div 60), 2) \o PadStart(ToDigits(abs % 60), 2)

\* makeDateTimeString([year, month, day, hours, minutes, seconds,
\* fracSeconds, timezone]): a year-first date phrase and a 24-hour time
\* phrase followed by the timezone.
MakeDateTimeString(year, month, day, hours, minutes, seconds, frac, tz) ==
  << [Blank EXCEPT !.k = "intl",
                   !.sign = IF year < 0 THEN <<"-">> ELSE <<>>,
                   !.y = PadStart(ToDigits(IF year < 0 THEN 0 - year ELSE year), 4),
                   !.mo = PadStart(ToDigits(month), 2),
                   !.d = PadStart(ToDigits(day), 2)],
     IF hours = 24 /\ minutes = 0 /\ seconds = 0 /\ frac = 0
     THEN [Blank EXCEPT !.k = "t24",
                        !.eod = <<"2", "4", ":", "0", "0", ":", "0", "0">>,
                        !.tz = tz]
     ELSE [Blank EXCEPT !.k = "t24",
                        !.h = PadStart(ToDigits(hours), 2),
                        !.mi = PadStart(ToDigits(minutes), 2),
                        !.s = PadStart(ToDigits(seconds), 2),
                        !.f = FracDigitsOf(frac),
                        !.tz = tz] >>

\* new Date(dateString) of a canonical string: the instant it denotes.
NewDate(dateString) ==
  LET d == dateString[1]
      t == dateString[2]
      year == ParseInt(d.sign \o d.y)
      minuteOfDay == IF t.eod # undefined THEN 24 * 60
                     ELSE 60 * ParseInt(t.h) + ParseInt(t.mi)
      seconds == IF t.eod # undefined THEN 0 ELSE ParseInt(t.s)
      millis == IF t.f = undefined THEN 0
                ELSE FracNumber(t.f) \div (FracUnit \div 1000)
      offset == GetTimezoneOffset(t.tz)[1]
  IN IF minuteOfDay > 24 * 60 \/ seconds > 59
        \/ (t.eod = undefined /\ ParseInt(t.mi) > 59)
        \/ ParseInt(d.mo) \notin 1..12 \/ ParseInt(d.d) \notin 1..31
     THEN InvalidDate
     ELSE Instant(DaysFromCivil(year, ParseInt(d.mo), ParseInt(d.d)),
                  ((minuteOfDay - offset) * 60 + seconds) * 1000 + millis)

-----------------------------------------------------------------------------
(* createValue *)

\* The DateTimeData object: its fields, the timezone string and the Date
\* computed when it is created.
CreateValue(tuple, localOffset) ==
  With(ConvertTimezoneOffsetToString(tuple.timezoneOffset, localOffset),
       LAMBDA tz :
         With(MakeDateTimeString(tuple.year, tuple.month, tuple.day,
                                 tuple.hours, tuple.minutes, tuple.seconds,
                                 tuple.fracSeconds, tz),
              LAMBDA dateString : [tuple |-> tuple, tz |-> tz,
                                   date |-> <<NewDate(dateString)>>]))

\* value.valueOf(): date.getTime() of a DateTimeData object, the seconds
\* since 00:00:00 (whole seconds and fraction) of a TimeData object
ValueOf(v) ==
  IF v.date # <<>> THEN v.date[1]
  ELSE [hi |-> v.tuple.hours * 60 * 60 + v.tuple.minutes * 60 + v.tuple.seconds,
        lo |-> v.tuple.fracSeconds]

\* value.isEod()
IsEod(v) == v.tuple.isEod

\* The methods of a DateTimeData object.
Accessors ==
  {"isDateTimeObject", "getYear", "getMonth", "getDayOfMonth", "isEod",
   "getHours", "getMinutes", "getSeconds", "getFractionalSeconds",
   "getMilliseconds", "getTimezoneOffset", "getDate", "valueOf", "toString"}

\* The Date object createValue creates is the first object of the heap of
\* the objects the value and its caller share.
DateRef == 1

\* A reference to the object at index ref of the heap.
Ref(ref) == [ref |-> ref]

\* A getDate that builds a Date from the canonical string at every call.
AccessCopying(a, v, h) ==
  IF a = "getDate"
  THEN [result |-> Ref(Len(h) + 1), heap |-> Append(h, h[DateRef])]
  ELSE [result |-> <<a>>, heap |-> h]

\* What the method a of the value v returns, the objects of the heap being h.
AccessResult(a, v, h) ==
  CASE a = "isDateTimeObject" -> TRUE
    [] a = "getYear" -> v.tuple.year
    [] a = "getMonth" -> v.tuple.month
    [] a = "getDayOfMonth" -> v.tuple.day
    [] a = "isEod" -> v.tuple.isEod
    [] a = "getHours" -> v.tuple.hours
    [] a = "getMinutes" -> v.tuple.minutes
    [] a = "getSeconds" -> v.tuple.seconds
    [] a = "getFractionalSeconds" -> v.tuple.fracSeconds
    [] a = "getMilliseconds" ->
         (v.tuple.fracSeconds * 1000 + FracUnit \div 2) \div FracUnit
    [] a = "getTimezoneOffset" -> v.tuple.timezoneOffset
    [] a = "getDate" -> Ref(DateRef)
    [] a = "valueOf" -> h[DateRef]
    [] a = "toString" ->
         MakeDateTimeString(v.tuple.year, v.tuple.month, v.tuple.day,
                            v.tuple.hours, v.tuple.minutes, v.tuple.seconds,
                            v.tuple.fracSeconds, v.tz)

\* A call of the method a of the value v: its result and the heap after it.
\* No method creates an object: getDate returns the Date of the closure.
Access(a, v, h) == [result |-> AccessResult(a, v, h), heap |-> h]

-----------------------------------------------------------------------------
(* Options *)

\* A min or max option as the caller gave it: rep is "undefined", "string"
\* (the text toks), "number" (epoch milliseconds of the instant at), "Date"
\* (a Date of the instant at), "DateTime" (the DateTimeData object v[1]),
\* "null", or "other" (a value of any other type: a RegExp, a boolean, a
\* plain object).
Bound(rep, toks, at, v) == [rep |-> rep, toks |-> toks, at |-> at, v |-> v]

NoBound == Bound("undefined", <<>>, InvalidDate, <<>>)

\* The options object.  iins and lengths are <<>> while undefined, else
\* <<list>>.  A hook is given as what the function returns when it
\* is called: "true", "false", "string" (an explanation), "number" (the
\* number 1) or "nothing" (undefined); the hook "undefined" is no function at
\* all.
DefaultOptions ==
  [name |-> undefined, status |-> NoNum, required |-> FALSE, noEod |-> FALSE,
   localTimezone |-> undefined, min |-> NoBound, max |-> NoBound,
   validateInput |-> "undefined", validateValue |-> "undefined",
   noAbbreviations |-> FALSE, noNumeric |-> FALSE, noYesNo |-> FALSE,
   treatNegativeValuesAsFalse |-> FALSE, iins |-> <<>>, lengths |-> <<>>]

\* const { status = 400 } = options
StatusOr400(opts) == IF opts.status = NoNum THEN Num(400) ELSE opts.status

\* `${name}' constraint '${which}`
ConstraintName(name, which) == name \o <<"constraint", which>>

-----------------------------------------------------------------------------
(* Shared checks *)

\* A type check that refuses only a missing input.
TypeChecksOfMissing(in, name, status) ==
  IF in.type \in {"undefined", "null"}
  THEN Throw(Error("ArgumentMissingError", name, "", status, <<>>))
  ELSE Return(<<>>)

\* typeChecks({ input, name, status })
TypeChecks(in, name, status) ==
  IF in.type \in {"undefined", "null"}
  THEN Throw(Error("ArgumentMissingError", name, "", status, <<>>))
  ELSE IF in.type # "string"
  THEN Throw(Error("ArgumentTypeError", name, "", status, <<>>))
  ELSE Return(<<>>)

\* The explanation a hook of kind "string" returns.
HookExplanation == "explained by the hook"

\* A helper that lets every truthy result pass.
ValidateHelperTruthy(validationFunc, validationType, opts) ==
  IF validationFunc \in {"undefined", "true", "number"} THEN Return(<<>>)
  ELSE IF validationFunc = "string"
  THEN Throw(ArgumentInvalidError(opts.name, HookExplanation, opts.status))
  ELSE Throw(ArgumentInvalidError(opts.name,
               IF validationType = "input"
               THEN "failed custom input validation"
               ELSE "failed custom value validation",
               opts.status))

\* validateHelper({ validationArgs, validationFunc, validationType })
ValidateHelper(validationFunc, validationType, opts) ==
  IF validationFunc = "undefined" THEN Return(<<>>)
  ELSE IF validationFunc = "string"
  THEN Throw(ArgumentInvalidError(opts.name, HookExplanation, opts.status))
  ELSE IF validationFunc # "true"
  THEN Throw(ArgumentInvalidError(opts.name,
               IF validationType = "input"
               THEN "failed custom input validation"
               ELSE "failed custom value validation",
               opts.status))
  ELSE Return(<<>>)

\* checkValidateInput(input, validationOptions)
CheckValidateInput(opts) == ValidateHelper(opts.validateInput, "input", opts)

\* checkValidateValue(value, validationOptions)
CheckValidateValue(opts) == ValidateHelper(opts.validateValue, "value", opts)

\* checkMaxMin({ max, min, name, status, value }): max and min are <<>>
\* (undefined) or <<bound>>; value > max and value < min compare valueOf().
CheckMaxMin(mx, mn, name, status, v) ==
  IF mx # <<>> /\ Less(ValueOf(mx[1]), ValueOf(v))
  THEN Throw(Error("ArgumentOutOfRangeError", ConstraintName(name, "max"),
                   "is out of range", status, mx))
  ELSE IF mn # <<>> /\ Less(ValueOf(v), ValueOf(mn[1]))
  THEN Throw(Error("ArgumentOutOfRangeError", ConstraintName(name, "min"),
                   "is out of range", status, mn))
  ELSE Return(<<>>)

-----------------------------------------------------------------------------
(* DateTime *)

EodIssue == "uses disallowed special EOD time '24:00'"

\* A parse that gives an input the ISO 8601 extractor refused to the
\* idiomatic extractor.
DateTimeParseRetrying(toks, opts, localOffset) ==
  With(<<Iso8601Match(toks), Rfc2822Match(toks)>>,
       LAMBDA matches :
         With(<<IF matches[1] # <<>>
                THEN ProcessISO8601DateTime(opts, matches[1], opts.localTimezone)
                ELSE Return(<<>>),
                IF matches[2] # <<>>
                THEN ProcessRFC2822DateTime(opts, matches[2], opts.localTimezone)
                ELSE Return(<<>>)>>,
              LAMBDA isoRfc :
                With(IF isoRfc[2].v # <<>> THEN isoRfc[2]
                     ELSE IF isoRfc[1].v # <<>> THEN isoRfc[1]
                     ELSE ProcessIdiomaticDateTime(opts, toks, opts.localTimezone),
                     LAMBDA t : IF t.threw THEN t
                                ELSE Return(<<CreateValue(t.v[1], localOffset)>>))))

\* The statements that give `value` its value: the ISO 8601 pattern, then the
\* RFC 2822 pattern, then the idiomatic extractor when neither matched.
DateTimeParse(toks, opts, localOffset) ==
  With(<<Iso8601Match(toks), Rfc2822Match(toks)>>,
       LAMBDA matches :
         With(<<IF matches[1] # <<>>
                THEN ProcessISO8601DateTime(opts, matches[1], opts.localTimezone)
                ELSE Return(<<>>),
                IF matches[2] # <<>>
                THEN ProcessRFC2822DateTime(opts, matches[2], opts.localTimezone)
                ELSE Return(<<>>)>>,
              LAMBDA isoRfc :
                With(IF isoRfc[1].threw THEN isoRfc[1]
                     ELSE IF isoRfc[2].v # <<>> THEN isoRfc[2]
                     ELSE IF isoRfc[1].v # <<>> THEN isoRfc[1]
                     ELSE ProcessIdiomaticDateTime(opts, toks, opts.localTimezone),
                     LAMBDA t : IF t.threw THEN t
                                ELSE Return(<<CreateValue(t.v[1], localOffset)>>))))

\* A check that throws whenever noEod is true, whatever the value.
NoEodAlways(opts, v) ==
  IF opts.noEod
  THEN Throw(ArgumentInvalidError(opts.name, EodIssue, StatusOr400(opts)))
  ELSE Return(<<>>)

\* noEod === true && value.isEod() === true
NoEodCheck(opts, v) ==
  IF opts.noEod /\ IsEod(v)
  THEN Throw(ArgumentInvalidError(opts.name, EodIssue, StatusOr400(opts)))
  ELSE Return(<<>>)

\* Options of a bound's conversion that hand a custom check on.
BoundOptionsWithHook(name, which) ==
  [DefaultOptions EXCEPT !.name = ConstraintName(name, which),
                         !.status = Num(500), !.validateValue = "true"]

\* The options of the call that converts a string bound.
BoundOptions(name, which) ==
  [DefaultOptions EXCEPT !.name = ConstraintName(name, which),
                         !.status = Num(500)]

\* { name : `${name}' constraint '${constraint}` }
ConstraintOptions(name, which) ==
  [DefaultOptions EXCEPT !.name = ConstraintName(name, which)]

\* The bounds whose conversion calls the type function f again.
Reenters(f, bound) ==
  IF f = "TimeOfDay" THEN bound.rep # "undefined"
  ELSE bound.rep \in {"string", "number", "Date"}

\* The options of the call of f that converts a bound: DateTime passes the
\* name and the status 500 with a string, TimeOfDay the name, Day the name
\* with a string; a call with no second argument runs with {}.
NestedOptions(f, bound, name, which) ==
  CASE f = "DateTime" -> IF bound.rep = "string" THEN BoundOptions(name, which)
                         ELSE DefaultOptions
    [] f = "TimeOfDay" -> ConstraintOptions(name, which)
    [] f = "Day" -> IF bound.rep = "string" THEN ConstraintOptions(name, which)
                    ELSE DefaultOptions

\* The canonical UTC string of a Date, as the call that converts a number or
\* Date bound receives it.
UTCString(date) ==
  With(UTCFields(date),
       LAMBDA f : MakeDateTimeString(f[1], f[2], f[3], f[4], f[5], f[6], f[7],
                                     TzZ))

\* The string a bound is converted from: the bound itself when it is a
\* string, the canonical UTC string of its instant when it is a number or a
\* Date.
BoundString(bound) ==
  IF bound.rep = "string" THEN bound.toks ELSE UTCString(bound.at)

\* The statements of DateTime(input, options) around the conversion of the
\* bounds, with mx and mn the outcomes of the two conversions.
DateTimeWith(in, opts, mx, mn, localOffset) ==
  LET checked == TypeChecks(in, opts.name, StatusOr400(opts))
      hookIn == CheckValidateInput(opts)
      hookValue == CheckValidateValue(opts)
      Rest(parsed) ==
        LET eod == NoEodCheck(opts, parsed.v[1])
            ranged == CheckMaxMin(mx.v, mn.v, opts.name, StatusOr400(opts),
                                  parsed.v[1])
        IN IF parsed.threw THEN parsed
           ELSE IF eod.threw THEN eod
           ELSE IF hookIn.threw THEN hookIn
           ELSE IF mx.threw THEN mx
           ELSE IF mn.threw THEN mn
           ELSE IF ranged.threw THEN ranged
           ELSE IF hookValue.threw THEN hookValue
           ELSE Return(parsed.v)
  IN IF checked.threw THEN checked
     ELSE With(DateTimeParse(in.toks, opts, localOffset),
               LAMBDA parsed : Rest(parsed))

\* The conversion of options.max / options.min to a DateTimeData object: a
\* string is parsed by DateTime under the name and status of the constraint,
\* a number or a Date by DateTime through its canonical UTC string with no
\* options (neither call gives bounds).  The last test reads
\* bound.isDateTimeObject, which the runtime refuses for null with a
\* TypeError of its own.
ConvertBound(bound, name, which, localOffset) ==
  IF Reenters("DateTime", bound)
  THEN With(BoundString(bound),
            LAMBDA s : DateTimeWith(StringInput(s),
                                    NestedOptions("DateTime", bound, name, which),
                                    Return(<<>>), Return(<<>>), localOffset))
  ELSE IF bound.rep = "undefined" THEN Return(<<>>)
  ELSE IF bound.rep = "DateTime" THEN Return(bound.v)
  ELSE IF bound.rep = "null"
  THEN Throw(Error("TypeError", undefined, "Cannot read properties of null",
                   NoNum, <<>>))
  ELSE Throw(Error("ArgumentTypeError", ConstraintName(name, which),
                   "is nonconvertible type", Num(500), <<>>))

\* DateTime(input, options), run by a runtime whose offset is localOffset.
DateTime(in, opts, localOffset) ==
  With(<<ConvertBound(opts.max, opts.name, "max", localOffset),
         ConvertBound(opts.min, opts.name, "min", localOffset)>>,
       LAMBDA b : DateTimeWith(in, opts, b[1], b[2], localOffset))

-----------------------------------------------------------------------------
(* TimeOfDay *)

\* checkRequired({ input, name, required, status })
CheckRequired(in, opts) ==
  IF opts.required /\ in.toks = <<>>
  THEN Throw(Error("ArgumentMissingError", opts.name, "is required",
                   opts.status, <<>>))
  ELSE Return(<<>>)

\* standardChecks(options): the type check, then the required check on the
\* trimmed input.
StandardChecks(in, opts) ==
  IF TypeChecks(in, opts.name, opts.status).threw
  THEN TypeChecks(in, opts.name, opts.status)
  ELSE CheckRequired(Trim(in), opts)

\* input.match(militaryTimeRe), input.match(timeRe) and
\* input.match(twentyFourHourTimeRe): patterns of the whole string, which
\* take no timezone.
WholeTime(in, kind) ==
  /\ ~in.pad
  /\ Len(in.toks) = 1
  /\ in.toks[1].k = kind
  /\ in.toks[1].tz = undefined

MilitaryTimeMatch(in) ==
  IF WholeTime(in, "mil") THEN MilTimeMatch(in.toks) ELSE <<>>

WholeTimeMatch(in) ==
  IF WholeTime(in, "t12") THEN TimeMatch(in.toks) ELSE <<>>

WholeTwentyFourHourTimeMatch(in) ==
  IF WholeTime(in, "t24") THEN TwentyFourHourTimeMatch(in.toks) ELSE <<>>

\* The TimeData object.
TimeData(isEod, hours, minutes, seconds, fracSeconds) ==
  [tuple |-> Tuple(0, 0, 0, isEod, hours, minutes, seconds, fracSeconds, NoNum),
   tz |-> undefined, date |-> <<>>]

\* hours of a 12-hour time in getValue
TimeOfDayHours(timeMatch) ==
  LET hours == ParseInt(timeMatch[1])
               + (IF ToLowerCase(timeMatch[5]) = <<"p", "m">> THEN 12 ELSE 0)
  IN IF hours = 24 THEN 0 ELSE hours

\* getValue({ isEod, militaryTimeMatch, timeMatch, twentyFourHourTimeMatch })
GetValue(isEod, militaryTimeMatch, timeMatch, twentyFourHourTimeMatch) ==
  IF isEod THEN TimeData(TRUE, 24, 0, 0, 0)
  ELSE TimeData(FALSE,
         IF timeMatch # <<>> THEN TimeOfDayHours(timeMatch)
         ELSE ParseInt(Or(G(militaryTimeMatch, 2), G(twentyFourHourTimeMatch, 2))),
         ParseInt(Or(G(timeMatch, 2),
                     Or(G(militaryTimeMatch, 3), G(twentyFourHourTimeMatch, 3)))),
         ParseInt(Or(G(timeMatch, 3), Or(G(twentyFourHourTimeMatch, 4), <<"0">>))),
         FracNumber(Or(G(timeMatch, 4), Or(G(twentyFourHourTimeMatch, 5), <<"0">>))))

NotRecognizedIssue == "not recognized as either military, standard, or 24-hour time"
TimeEodIssue == "special 'end-of-day' time disallowed"

\* const isEod = militaryTimeMatch?.[1] !== undefined || ...
TimeOfDayIsEod(in) ==
  G(MilitaryTimeMatch(in), 1) # undefined
  \/ G(WholeTwentyFourHourTimeMatch(in), 1) # undefined

\* The pattern matching of TimeOfDay on the trimmed input.
TimeOfDayMatch(in, opts) ==
  IF MilitaryTimeMatch(in) = <<>> /\ WholeTimeMatch(in) = <<>>
     /\ WholeTwentyFourHourTimeMatch(in) = <<>>
  THEN Throw(ArgumentInvalidError(opts.name, NotRecognizedIssue, NoNum))
  ELSE Return(<<>>)

\* if (noEod === true) { throw ... }
TimeOfDayNoEodCheck(opts, isEod) ==
  IF opts.noEod
  THEN Throw(ArgumentInvalidError(opts.name, TimeEodIssue, NoNum))
  ELSE Return(<<>>)

\* The argument a bound becomes when it is handed to the type function.
BoundInput(bound) ==
  IF bound.rep = "string" THEN StringInput(bound.toks)
  ELSE [type |-> IF bound.rep = "number" THEN "number" ELSE "object",
        pad |-> FALSE, toks |-> <<>>]

RECURSIVE TimeOfDay(_, _)

\* max = TimeOfDay(max, { name : `${name}' constraint 'max` })
ConvertTimeBound(bound, name, which) ==
  IF ~Reenters("TimeOfDay", bound) THEN Return(<<>>)
  ELSE TimeOfDay(BoundInput(bound),
                 NestedOptions("TimeOfDay", bound, name, which))

\* TimeOfDay(input, options)
TimeOfDay(in, opts) ==
  LET checked == StandardChecks(in, opts)
      trimmed == Trim(in)
      matched == TimeOfDayMatch(trimmed, opts)
      eod == TimeOfDayNoEodCheck(opts, TimeOfDayIsEod(trimmed))
      hookIn == CheckValidateInput(opts)
      v == GetValue(TimeOfDayIsEod(trimmed), MilitaryTimeMatch(trimmed),
                    WholeTimeMatch(trimmed),
                    WholeTwentyFourHourTimeMatch(trimmed))
      mx == ConvertTimeBound(opts.max, opts.name, "max")
      mn == ConvertTimeBound(opts.min, opts.name, "min")
      ranged == CheckMaxMin(mx.v, mn.v, opts.name, opts.status, v)
      hookValue == CheckValidateValue(opts)
  IN IF checked.threw THEN checked
     ELSE IF trimmed.toks = <<>> THEN Return(<<>>)
     ELSE IF matched.threw THEN matched
     ELSE IF eod.threw THEN eod
     ELSE IF hookIn.threw THEN hookIn
     ELSE IF mx.threw THEN mx
     ELSE IF mn.threw THEN mn
     ELSE IF ranged.threw THEN ranged
     ELSE IF hookValue.threw THEN hookValue
     ELSE Return(<<v>>)

-----------------------------------------------------------------------------
(* BooleanString *)

\* Number.parseFloat(input): the number its longest numeric prefix denotes
\* (NoNum when there is none, that is NaN); the texts of the model are
\* integers with an optional sign, possibly followed by letters.
ParseFloat(s) ==
  LET neg == s # <<>> /\ s[1] = "-"
      body == IF neg THEN Tail(s) ELSE s
      n == CHOOSE k \in 0..Len(body) :
             /\ \A i \in 1..k : IsDigit(body[i])
             /\ k = Len(body) \/ ~IsDigit(body[k + 1])
  IN IF n = 0 THEN NoNum
     ELSE Num((IF neg THEN 0 - 1 ELSE 1) * ParseDigits(SubSeq(body, 1, n)))

\* floatRe.test(input): the whole text is a number.
FloatReTest(s) ==
  LET body == IF s # <<>> /\ s[1] = "-" THEN Tail(s) ELSE s
  IN body # <<>> /\ \A i \in 1..Len(body) : IsDigit(body[i])

Abbreviations == {<<"t">>, <<"f">>, <<"y">>, <<"n">>}
YesNo == {<<"y", "e", "s">>, <<"y">>, <<"n", "o">>, <<"n">>}
\* The words for true without the abbreviations.
TrueWordsInFull == {<<"t", "r", "u", "e">>, <<"y", "e", "s">>}
TrueWords == {<<"t", "r", "u", "e">>, <<"t">>, <<"y", "e", "s">>, <<"y">>}
FalseWords == {<<"f", "a", "l", "s", "e">>, <<"f">>, <<"n", "o">>, <<"n">>}

\* The statements of BooleanString between the empty-string test and the
\* hooks, run on the lower-cased text: the disallowed forms, then the value.
BooleanValue(text, opts) ==
  LET Invalid(issue) == Throw(ArgumentInvalidError(opts.name, issue,
                                                   opts.status))
      numericValue == ParseFloat(text)
  IN IF opts.noAbbreviations /\ text \in Abbreviations
     THEN Invalid("is disallowed abbreviated value")
     ELSE IF opts.noYesNo /\ text \in YesNo
     THEN Invalid("is disallowed yes/no value")
     ELSE IF text \in TrueWords THEN Return(<<TRUE>>)
     ELSE IF text \in FalseWords THEN Return(<<FALSE>>)
     ELSE IF opts.noNumeric /\ numericValue # NoNum
     THEN Invalid("is disallowed numeric value")
     ELSE IF numericValue = NoNum \/ ~FloatReTest(text)
     THEN Invalid("could not be parsed as a boolean value")
     ELSE IF numericValue[1] = 0
             \/ (opts.treatNegativeValuesAsFalse /\ numericValue[1] < 0)
     THEN Return(<<FALSE>>)
     ELSE IF numericValue[1] > 0 THEN Return(<<TRUE>>)
     ELSE Invalid("is ambiguous negative numeric value")

-----------------------------------------------------------------------------
(* Day *)

\* intlDateRe, usDateRe and ^rfc2822DayReString$ are patterns of the whole
\* string: they match an input that is one date phrase.
WholeDate(in) == IF ~in.pad /\ Len(in.toks) = 1 THEN in.toks ELSE <<>>

DayAmbiguousIssue == "is ambiguous"
DayNotRecognizedIssue ==
  "is not recognized as either US, international, or a RFC 2822 style date"
InvalidDayIssue ==
  "looks syntactically valid, but specifies an invalid day for the given month/year."

\* matchCount and the two errors it raises, which carry no status
DayMatch(in, opts) ==
  LET matchCount == Count(IntlDateMatch(WholeDate(in)))
                    + Count(UsDateMatch(WholeDate(in)))
                    + Count(Rfc2822DayMatch(WholeDate(in)))
  IN IF matchCount > 1
     THEN Throw(ArgumentInvalidError(opts.name, DayAmbiguousIssue, NoNum))
     ELSE IF matchCount = 0
     THEN Throw(ArgumentInvalidError(opts.name, DayNotRecognizedIssue, NoNum))
     ELSE Return(<<>>)

\* <<year, month, day>> as Day reads them from the match
DayFields(in) ==
  LET intlMatch == IntlDateMatch(WholeDate(in))
      usMatch == UsDateMatch(WholeDate(in))
      rfc2822Match == Rfc2822DayMatch(WholeDate(in))
      ceIndicator == Or(G(intlMatch, 1), Or(G(usMatch, 3), <<>>))
  IN <<ParseInt(ceIndicator
                \o Or(G(intlMatch, 2), Or(G(usMatch, 4), G(rfc2822Match, 4)))),
       IF rfc2822Match # <<>> THEN ConvertMonthName(rfc2822Match[3])
       ELSE ParseInt(Or(G(intlMatch, 3), G(usMatch, 1))),
       ParseInt(Or(G(intlMatch, 4), Or(G(usMatch, 2), G(rfc2822Match, 2))))>>

\* The day number of new Date(year, month - 1, day): a year from 0 to 99 is
\* read as 1900 + year, and a day past the end of the month runs on into the
\* next month.
LocalDayNumber(year, month, day) ==
  DaysFromCivil(IF year \in 0..99 THEN 1900 + year ELSE year, month, day)

\* new Date(year, month - 1, day): midnight, local time, of that day
LocalDate(year, month, day, localOffset) ==
  Instant(LocalDayNumber(year, month, day), (0 - localOffset) * 60 * 1000)

\* date.getDate(): the local day of the month
GetDate(year, month, day) == CivilFromDays(LocalDayNumber(year, month, day))[3]

\* The DayData object of createValue({ day, month, year, date }); the same
\* record with only its date stands for the Date handed to checkMaxMin.
DayData(fields, localOffset) ==
  [tuple |-> Tuple(fields[1], fields[2], fields[3], FALSE, 0, 0, 0, 0, NoNum),
   tz |-> undefined,
   date |-> <<LocalDate(fields[1], fields[2], fields[3], localOffset)>>]

\* day !== date.getDate()
CheckDayOfMonth(fields, opts) ==
  IF fields[3] # GetDate(fields[1], fields[2], fields[3])
  THEN Throw(ArgumentInvalidError(opts.name, InvalidDayIssue, opts.status))
  ELSE Return(<<>>)

\* `${date.getUTCFullYear()}-${date.getUTCMonth() + 1}-${date.getUTCDate()}`
UTCDayString(date) ==
  With(UTCFields(date),
       LAMBDA f : <<[Blank EXCEPT !.k = "intl",
                                  !.sign = IF f[1] < 0 THEN <<"-">> ELSE <<>>,
                                  !.y = ToDigits(IF f[1] < 0 THEN 0 - f[1] ELSE f[1]),
                                  !.mo = ToDigits(f[2]), !.d = ToDigits(f[3])]>>)

\* The statements of Day(input, options) around the conversion of the
\* bounds, with mx and mn the outcomes of the two conversions.
DayWith(in, opts, mx, mn, localOffset) ==
  LET checked == StandardChecks(in, opts)
      trimmed == Trim(in)
      matched == DayMatch(trimmed, opts)
      hookIn == CheckValidateInput(opts)
      fields == DayFields(trimmed)
      ranged == CheckMaxMin(mx.v, mn.v, opts.name, opts.status,
                            DayData(fields, localOffset))
      dayOfMonth == CheckDayOfMonth(fields, opts)
      hookValue == CheckValidateValue(opts)
  IN IF checked.threw THEN checked
     ELSE IF trimmed.toks = <<>> THEN Return(<<>>)
     ELSE IF matched.threw THEN matched
     ELSE IF hookIn.threw THEN hookIn
     ELSE IF mx.threw THEN mx
     ELSE IF mn.threw THEN mn
     ELSE IF ranged.threw THEN ranged
     ELSE IF dayOfMonth.threw THEN dayOfMonth
     ELSE IF hookValue.threw THEN hookValue
     ELSE Return(<<DayData(fields, localOffset)>>)

\* convertToDay(value, name, constraint, status): a string is parsed by Day
\* under the name of the constraint, a number or a Date by Day through the
\* text of its UTC day with no options (neither call gives bounds), a
\* DayData object is returned as it is; the test of any other value reads
\* value.isDayObject, which the runtime refuses for null with a TypeError of
\* its own.
ConvertToDay(bound, name, which, status, localOffset) ==
  IF Reenters("Day", bound)
  THEN DayWith(StringInput(IF bound.rep = "string" THEN bound.toks
                           ELSE UTCDayString(bound.at)),
               NestedOptions("Day", bound, name, which),
               Return(<<>>), Return(<<>>), localOffset)
  ELSE IF bound.rep = "Day" THEN Return(bound.v)
  ELSE IF bound.rep = "null"
  THEN Throw(Error("TypeError", undefined, "Cannot read properties of null",
                   NoNum, <<>>))
  ELSE Throw(Error("ArgumentTypeError", ConstraintName(name, which),
                   "has nonconvertible type", status, <<>>))

\* if (max !== undefined) { max = convertToDay(max, name, 'max', status) }
ConvertDayBound(bound, name, which, status, localOffset) ==
  IF bound.rep = "undefined" THEN Return(<<>>)
  ELSE ConvertToDay(bound, name, which, status, localOffset)

\* Day(input, options), run by a runtime whose offset is localOffset.
Day(in, opts, localOffset) ==
  With(<<ConvertDayBound(opts.max, opts.name, "max", opts.status, localOffset),
         ConvertDayBound(opts.min, opts.name, "min", opts.status, localOffset)>>,
       LAMBDA b : DayWith(in, opts, b[1], b[2], localOffset))

-----------------------------------------------------------------------------
(* CardNumber *)

\* An entry of options.iins: a string or a number, given by the text of
\* '' + iin, or a regular expression, given by the alternatives of its
\* source, each a literal text that is pinned to the start ('^') or not.
Iin(kind, text, alts) == [kind |-> kind, text |-> text, alts |-> alts]

Alt(pinned, text) == [pinned |-> pinned, text |-> text]

\* s.startsWith(prefix)
StartsWith(s, prefix) ==
  Len(prefix) <= Len(s) /\ SubSeq(s, 1, Len(prefix)) = prefix

\* The text occurs somewhere in s.
Includes(s, text) ==
  \E i \in 0..Len(s) :
    i + Len(text) <= Len(s) /\ SubSeq(s, i + 1, i + Len(text)) = text

\* new RegExp(`^(?:\\d${seps}?)+\\d$`).test(input): two digits or more, with
\* at most one space or dash between two of them.
FormattedNumberReTest(s) ==
  /\ Len(s) >= 2
  /\ IsDigit(s[1])
  /\ IsDigit(s[Len(s)])
  /\ \A i \in 1..Len(s) :
       \/ IsDigit(s[i])
       \/ s[i] \in {" ", "-"} /\ i > 1 /\ i < Len(s) /\ IsDigit(s[i - 1])
            /\ IsDigit(s[i + 1])

\* input.replaceAll(rawNumberRe, '')
RawNumber(s) == SelectSeq(s, LAMBDA c : c \notin {" ", "-"})

\* lengths = [12, 13, 14, 15, 16, 17, 18, 19]
DefaultLengths == <<12, 13, 14, 15, 16, 17, 18, 19>>

\* lengths.includes(n)
LengthsInclude(lengths, n) == \E i \in 1..Len(lengths) : lengths[i] = n

RECURSIVE Split(_)
\* text.split('-')
Split(text) ==
  IF \A i \in 1..Len(text) : text[i] # "-" THEN <<text>>
  ELSE LET at == CHOOSE i \in 1..Len(text) :
                   text[i] = "-" /\ \A j \in 1..(i - 1) : text[j] # "-"
       IN <<SubSeq(text, 1, at - 1)>> \o Split(SubSeq(text, at + 1, Len(text)))

\* iin.test(numberString): some alternative matches, a pinned one at the
\* start of the string only.
RegExpTest(iin, s) ==
  \E i \in 1..Len(iin.alts) :
    IF iin.alts[i].pinned THEN StartsWith(s, iin.alts[i].text)
    ELSE Includes(s, iin.alts[i].text)

\* a >= b and b <= c on numbers; every comparison with NaN is false
Between(a, b, c) == a # NaN /\ b # NaN /\ c # NaN /\ a <= b /\ b <= c

PinIssue ==
  "is invalid; regular expression must be pinned to the start of string"
WidthIssue ==
  "contains an invalid range; both the min and max must specify the same number of digits"
RangeIssue == "contains an invalid range"
IinIssue == "contains a non-accepted Issuer Identifier Number (IIN)"

IinError(name, issue) ==
  Throw(Error("ArgumentInvalidError", ConstraintName(name, "iins"), issue,
              Num(500), <<>>))

\* The callback of iins.some: whether the entry accepts the number, or the
\* error it throws.
IinAccepts(iin, numberString, name) ==
  IF iin.kind = "RegExp"
  THEN IF ~iin.alts[1].pinned THEN IinError(name, PinIssue)
       ELSE Return(<<RegExpTest(iin, numberString)>>)
  ELSE LET range == Split(iin.text)
       IN IF Len(range) = 1
          THEN Return(<<StartsWith(numberString, range[1])>>)
          ELSE IF Len(range) = 2
          THEN IF Len(range[2]) # Len(range[1]) THEN IinError(name, WidthIssue)
               ELSE Return(<<Between(ParseInt(range[1]),
                                     ParseInt(SubSeq(numberString, 1,
                                                     IF Len(range[1]) < Len(numberString)
                                                     THEN Len(range[1])
                                                     ELSE Len(numberString))),
                                     ParseInt(range[2]))>>)
          ELSE IinError(name, RangeIssue)

RECURSIVE Some(_, _, _)
\* iins.some(...): the entries in order up to the first that accepts.
Some(iins, numberString, name) ==
  IF iins = <<>> THEN Return(<<FALSE>>)
  ELSE LET first == IinAccepts(Head(iins), numberString, name)
       IN IF first.threw \/ first.v[1] THEN first
          ELSE Some(Tail(iins), numberString, name)

\* iins !== undefined && iins.some(...) !== true
CheckIins(opts, numberString) ==
  IF opts.iins = <<>> THEN Return(<<>>)
  ELSE LET some == Some(opts.iins[1], numberString, opts.name)
       IN IF some.threw THEN some
          ELSE IF ~some.v[1] THEN IinError(opts.name, IinIssue)
          ELSE Return(<<>>)

RECURSIVE LuhnSum(_, _)
\* The sum of the digits of s, every second one from the right doubled and
\* brought back under ten.
LuhnSum(s, double) ==
  IF s = <<>> THEN 0
  ELSE LET d == DigitVal(s[Len(s)])
           dd == IF double THEN (IF 2 * d > 9 THEN 2 * d - 9 ELSE 2 * d) ELSE d
       IN dd + LuhnSum(SubSeq(s, 1, Len(s) - 1), ~double)

\* luhn.validate(numberString)
LuhnValidate(s) == LuhnSum(s, FALSE) % 10 = 0

\* formattedNumberRe.test(input) === false
CheckFormat(in, opts) ==
  IF ~FormattedNumberReTest(in.toks)
  THEN Throw(ArgumentInvalidError(opts.name,
                                  "does not appear to be a card number",
                                  opts.status))
  ELSE Return(<<>>)

\* lengths !== undefined && !lengths.includes(numberString.length)
CheckLengths(opts, numberString) ==
  IF ~LengthsInclude(IF opts.lengths = <<>> THEN DefaultLengths
                     ELSE opts.lengths[1], Len(numberString))
  THEN Throw(ArgumentInvalidError(opts.name, "is an invalid length",
                                  opts.status))
  ELSE Return(<<>>)

\* luhn.validate(numberString) !== true
CheckLuhn(opts, numberString) ==
  IF ~LuhnValidate(numberString)
  THEN Throw(ArgumentInvalidError(opts.name,
                                  "failed the check-digit validation",
                                  opts.status))
  ELSE Return(<<>>)

-----------------------------------------------------------------------------
(* The calls of the model *)

\* The offsets (minutes east of UTC) of the runtimes of the model.
LocalOffsets == {0, 0 - 300}

NamedOptions == [DefaultOptions EXCEPT !.name = <<"foo">>]

\* '01/0d/2024'
UsDate(d) ==
  [Blank EXCEPT !.k = "us", !.mo = <<"0", "1">>,
                !.d = PadStart(ToDigits(d), 2), !.sign = <<>>, !.y = Y2024]

\* '01/0d/2024 12:30:40.5 -0230', the instant 15:00:40.500 UTC of day d of
\* January 2024
BoundText(d) ==
  <<UsDate(d),
    [Blank EXCEPT !.k = "t24", !.h = <<"1", "2">>, !.mi = <<"3", "0">>,
                  !.s = <<"4", "0">>, !.f = <<"5">>, !.tz = TzMinus0230]>>

BoundInstant(d) ==
  Instant(DaysFromCivil(2024, 1, d), ((15 * 60 + 0) * 60 + 40) * 1000 + 500)

BoundReps == {"string", "number", "Date", "DateTime"}

\* The instant of day d as a bound of representation rep, in a runtime whose
\* offset is localOffset.
BoundAs(rep, d, localOffset) ==
  CASE rep = "string" -> Bound("string", BoundText(d), InvalidDate, <<>>)
    [] rep = "number" -> Bound("number", <<>>, BoundInstant(d), <<>>)
    [] rep = "Date" -> Bound("Date", <<>>, BoundInstant(d), <<>>)
    [] rep = "DateTime" ->
         Bound("DateTime", <<>>, InvalidDate,
               DateTime(StringInput(BoundText(d)), DefaultOptions,
                        localOffset).v)

\* '01/02/2024 1300 1:00 PM': a date and two time phrases
TwoTimesText ==
  <<UsDate(2),
    [Blank EXCEPT !.k = "mil", !.h = <<"1", "3">>, !.mi = <<"0", "0">>],
    [Blank EXCEPT !.k = "t12", !.h = <<"1">>, !.mi = <<"0", "0">>,
                  !.ap = <<"P", "M">>]>>

\* A US date phrase 'mm/dd/yyyy'.
UsDay(month, day, year) ==
  [Blank EXCEPT !.k = "us", !.mo = PadStart(ToDigits(month), 2),
                !.d = PadStart(ToDigits(day), 2), !.sign = <<>>,
                !.y = ToDigits(year)]

\* Date phrases of days no calendar has: '02/30/2024', '04/31/2024',
\* '02/29/2023'.
ImpossibleDays == {UsDay(2, 30, 2024), UsDay(4, 31, 2024), UsDay(2, 29, 2023)}

\* '02/30/2024 12:30:40.5 -0230': a time on a day no calendar has
ImpossibleDayText == <<UsDay(2, 30, 2024), BoundText(2)[2]>>

\* The bounds a DateTime call is given.
DateTimeBounds(localOffset) ==
  {NoBound, Bound("other", <<>>, InvalidDate, <<>>),
   Bound("null", <<>>, InvalidDate, <<>>),
   Bound("string", <<Blank>>, InvalidDate, <<>>),
   Bound("string", TwoTimesText, InvalidDate, <<>>)}
  \cup {BoundAs(rep, d, localOffset) : rep \in BoundReps, d \in 1..MaxBoundDay}

\* The input strings of the DateTime calls: at most one date phrase and one
\* time phrase, the ISO 8601 and RFC 2822 strings, a word, the empty string
\* and a string with two time phrases.
DateTimeTexts ==
  {d \o r : d \in {<<>>} \cup {<<t>> : t \in DateTokens}, r \in TimeRuns(1)}
  \cup {<<t>> : t \in IsoTokens \cup {Rfc2822Token, Blank}}
  \cup {TwoTimesText, ImpossibleDayText}

\* The subjects of the DateTime calls with bounds: 2 January 2024 and a time.
SubjectTexts == {<<UsDate(2), t>> : t \in TimeTokens} \cup {TwoTimesText}

\* The texts of 2 January 2024 and a time with no timezone, such as
\* '01/02/2024 12:30:40.5'.
ZonelessTexts == {<<UsDate(2), t>> : t \in BareTimeTokens}

Hooks == {"undefined", "true", "false", "string", "number", "nothing"}

DateTimeCalls(localOffset) ==
  {[in |-> i, opts |-> o] :
     i \in {StringInput(t) : t \in DateTimeTexts} \cup NonStrings,
     o \in {[NamedOptions EXCEPT !.noEod = e, !.localTimezone = z,
                                 !.required = r] :
              e \in BOOLEAN, z \in {undefined, TzPlus0100}, r \in BOOLEAN}}
  \cup
  {[in |-> StringInput(t), opts |-> o] :
     t \in SubjectTexts,
     o \in {[NamedOptions EXCEPT !.max = mx, !.min = mn] :
              mx \in DateTimeBounds(localOffset),
              mn \in DateTimeBounds(localOffset)}}
  \cup
  {[in |-> StringInput(BoundText(2)), opts |-> o] :
     o \in {[NamedOptions EXCEPT !.validateInput = hi, !.validateValue = hv,
                                 !.max = mx] :
              hi \in Hooks, hv \in Hooks,
              mx \in {NoBound, BoundAs("number", 1, localOffset),
                      BoundAs("string", 2, localOffset)}}}
  \cup
  UNION {{[in |-> StringInput(t),
           opts |-> [NamedOptions EXCEPT !.localTimezone = z, !.max = mx,
                                         !.min = mn]] :
            z \in {undefined, TzPlus0100},
            mx \in {NoBound, Bound("string", t, InvalidDate, <<>>)},
            mn \in {NoBound, Bound("string", t, InvalidDate, <<>>)}} :
         t \in ZonelessTexts}

\* The bounds a TimeOfDay call is given: none, '1300', '24:00', 'foo', a
\* number.
TimeOfDayBounds ==
  {NoBound,
   Bound("string",
         <<[Blank EXCEPT !.k = "mil", !.h = <<"1", "3">>, !.mi = <<"0", "0">>]>>,
         InvalidDate, <<>>),
   Bound("string", <<[Blank EXCEPT !.k = "t24",
                                   !.eod = <<"2", "4", ":", "0", "0">>]>>,
         InvalidDate, <<>>),
   Bound("string", <<Blank>>, InvalidDate, <<>>),
   Bound("number", <<>>, BoundInstant(1), <<>>)}

\* The input strings of the TimeOfDay calls.
TimeOfDayTexts ==
  {<<>>, <<Blank>>} \cup {<<t>> : t \in TimeTokens}

TimeOfDayCalls ==
  {[in |-> i, opts |-> o] :
     i \in {StringInput(t) : t \in TimeOfDayTexts}
           \cup {PaddedInput(t) : t \in TimeOfDayTexts} \cup NonStrings,
     o \in {[NamedOptions EXCEPT !.noEod = e, !.required = r, !.max = mx,
                                 !.min = mn] :
              e \in BOOLEAN, r \in BOOLEAN,
              mx \in TimeOfDayBounds, mn \in TimeOfDayBounds}}
  \cup
  {[in |-> StringInput(t), opts |-> o] :
     t \in {<<>>} \cup {<<b>> : b \in BareTimeTokens},
     o \in {[NamedOptions EXCEPT !.validateInput = hi, !.validateValue = hv] :
              hi \in Hooks, hv \in Hooks}}

\* The texts of the BooleanString calls: '', 'true', 'T', 'Yes', 'n', 'No',
\* 'False', '1', '0', '-1', '2a', 'maybe'.
BooleanTexts ==
  {<<>>, <<"t", "r", "u", "e">>, <<"T">>, <<"Y", "e", "s">>, <<"n">>,
   <<"N", "o">>, <<"F", "a", "l", "s", "e">>, <<"1">>, <<"0">>, <<"-", "1">>,
   <<"2", "a">>, <<"m", "a", "y", "b", "e">>}

BooleanStringCalls ==
  {[in |-> i, opts |-> o] :
     i \in {StringInput(t) : t \in BooleanTexts}
           \cup {PaddedInput(t) : t \in BooleanTexts} \cup NonStrings,
     o \in {[NamedOptions EXCEPT !.noAbbreviations = a, !.noYesNo = y,
                                 !.noNumeric = n, !.required = r,
                                 !.treatNegativeValuesAsFalse = f] :
              a \in BOOLEAN, y \in BOOLEAN, n \in BOOLEAN, r \in BOOLEAN,
              f \in BOOLEAN}}
  \cup
  {[in |-> i, opts |-> o] :
     i \in {StringInput(<<"Y", "e", "s">>), PaddedInput(<<"1">>),
            StringInput(<<"n">>)},
     o \in {[NamedOptions EXCEPT !.validateInput = hi, !.validateValue = hv,
                                 !.noAbbreviations = a] :
              hi \in Hooks, hv \in Hooks, a \in BOOLEAN}}

\* The texts of the Day calls: '', a word, the date phrases, the leap day
\* '02/29/2024', the impossible days, and a date followed by a time.
DayTexts ==
  {<<>>, <<Blank>>, <<UsDay(2, 29, 2024)>>, BoundText(2)}
  \cup {<<t>> : t \in DateTokens \cup ImpossibleDays}

\* The bounds of the Day calls.
DayMaxBounds(localOffset) ==
  {NoBound, Bound("other", <<>>, InvalidDate, <<>>),
   Bound("null", <<>>, InvalidDate, <<>>),
   Bound("string", <<Blank>>, InvalidDate, <<>>),
   Bound("string", <<UsDay(3, 1, 2024)>>, InvalidDate, <<>>),
   Bound("number", <<>>, BoundInstant(1), <<>>),
   Bound("Date", <<>>, BoundInstant(2), <<>>),
   Bound("Day", <<>>, InvalidDate,
         Day(StringInput(<<UsDate(2)>>), DefaultOptions, localOffset).v)}
  \cup {Bound("string", <<UsDate(d)>>, InvalidDate, <<>>) :
          d \in 1..MaxBoundDay}

DayMinBounds ==
  {NoBound, Bound("null", <<>>, InvalidDate, <<>>),
   Bound("string", <<UsDate(2)>>, InvalidDate, <<>>)}

DayCalls(localOffset) ==
  {[in |-> i, opts |-> o] :
     i \in {StringInput(t) : t \in DayTexts}
           \cup {PaddedInput(t) : t \in DayTexts} \cup NonStrings,
     o \in {[NamedOptions EXCEPT !.max = mx, !.min = mn] :
              mx \in DayMaxBounds(localOffset), mn \in DayMinBounds}
           \cup {[NamedOptions EXCEPT !.required = TRUE]}}
  \cup
  {[in |-> StringInput(t), opts |-> o] :
     t \in {<<UsDate(2)>>, <<UsDay(2, 30, 2024)>>},
     o \in {[NamedOptions EXCEPT !.validateInput = hi, !.validateValue = hv] :
              hi \in Hooks, hv \in Hooks}}

\* The texts of the CardNumber calls: '', '4242', '42-42', '4 2 4 2',
\* '42--42', '-4242', '1234', '2424', 'abc', '378282246310005',
\* '3782-822463-10005', '5019717010103742', '5019717010103741' and '123'.
CardTexts ==
  {<<>>, <<"4", "2", "4", "2">>, <<"4", "2", "-", "4", "2">>,
   <<"4", " ", "2", " ", "4", " ", "2">>,
   <<"4", "2", "-", "-", "4", "2">>, <<"-", "4", "2", "4", "2">>,
   <<"1", "2", "3", "4">>, <<"2", "4", "2", "4">>, <<"a", "b", "c">>,
   <<"3", "7", "8", "2", "8", "2", "2", "4", "6", "3", "1", "0", "0", "0",
     "5">>,
   <<"3", "7", "8", "2", "-", "8", "2", "2", "4", "6", "3", "-", "1", "0",
     "0", "0", "5">>,
   <<"5", "0", "1", "9", "7", "1", "7", "0", "1", "0", "1", "0", "3", "7",
     "4", "2">>,
   <<"5", "0", "1", "9", "7", "1", "7", "0", "1", "0", "1", "0", "3", "7",
     "4", "1">>,
   <<"1", "2", "3">>}

\* The iins of the CardNumber calls: ['42'], [42], [/^42/], [/42/],
\* ['40-45'], ['4-45'], ['1-2-3'], ['60'], ['60', '42'], ['60-70'],
\* [/^60/, '50'], ['490-501'], [/^34|^42/] and [/^34|24/].
CardIins ==
  {<<Iin("string", <<"4", "2">>, <<>>)>>,
   <<Iin("number", <<"4", "2">>, <<>>)>>,
   <<Iin("RegExp", <<>>, <<Alt(TRUE, <<"4", "2">>)>>)>>,
   <<Iin("RegExp", <<>>, <<Alt(FALSE, <<"4", "2">>)>>)>>,
   <<Iin("string", <<"4", "0", "-", "4", "5">>, <<>>)>>,
   <<Iin("string", <<"4", "-", "4", "5">>, <<>>)>>,
   <<Iin("string", <<"1", "-", "2", "-", "3">>, <<>>)>>,
   <<Iin("string", <<"6", "0">>, <<>>)>>,
   <<Iin("string", <<"6", "0">>, <<>>), Iin("string", <<"4", "2">>, <<>>)>>,
   <<Iin("string", <<"6", "0", "-", "7", "0">>, <<>>)>>,
   <<Iin("RegExp", <<>>, <<Alt(TRUE, <<"6", "0">>)>>),
     Iin("string", <<"5", "0">>, <<>>)>>,
   <<Iin("string", <<"4", "9", "0", "-", "5", "0", "1">>, <<>>)>>,
   <<Iin("RegExp", <<>>, <<Alt(TRUE, <<"3", "4">>), Alt(TRUE, <<"4", "2">>)>>)>>,
   <<Iin("RegExp", <<>>, <<Alt(TRUE, <<"3", "4">>), Alt(FALSE, <<"2", "4">>)>>)>>}

CardNumberCalls ==
  {[in |-> i, opts |-> o] :
     i \in {StringInput(t) : t \in CardTexts}
           \cup {PaddedInput(<<"4", "2", "4", "2">>)} \cup NonStrings,
     o \in {[NamedOptions EXCEPT !.iins = n, !.lengths = l, !.required = r] :
              n \in {<<>>} \cup {<<e>> : e \in CardIins},
              l \in {<<>>, <<<<4>>>>, <<<<4, 16>>>>},
              r \in BOOLEAN}}
  \cup
  {[in |-> StringInput(<<"4", "2", "-", "4", "2">>), opts |-> o] :
     o \in {[NamedOptions EXCEPT !.validateInput = hi, !.validateValue = hv,
                                 !.lengths = <<<<4>>>>] :
              hi \in Hooks, hv \in Hooks}}

\* The calls of the extractors.
ExtractorOptions ==
  {[NamedOptions EXCEPT !.localTimezone = z] : z \in {undefined, TzPlus0100}}

IdiomaticCalls ==
  {[in |-> StringInput(t), opts |-> o] :
     t \in IdiomaticTexts \cup {<<Blank>>}, o \in ExtractorOptions}

Iso8601Calls ==
  {[in |-> StringInput(<<t>>), opts |-> o] :
     t \in IsoTokens, o \in ExtractorOptions}

\* The tuples createValue is called with: those of the ISO 8601 strings
\* with a whole time, the end of the day, no timezone and six fractional
\* digits.
CreateValueTuples ==
  {ProcessISO8601DateTime(NamedOptions, Iso8601Match(<<t>>), undefined).v[1] :
     t \in {u \in IsoTokens : u.k = "iso" /\ u.fh = undefined
                                /\ u.fm = undefined}}

-----------------------------------------------------------------------------
(* The state machine: one call of one function, run statement block by     *)
(* statement block.                                                        *)

TypeFunctions ==
  {"DateTime", "TimeOfDay", "BooleanString", "Day", "CardNumber"}

Init ==
  /\ fn = "none"
  /\ pc = "idle"
  /\ given = StringInput(<<>>)
  /\ input = StringInput(<<>>)
  /\ options = DefaultOptions
  /\ this = <<>>
  /\ passed = <<>>
  /\ env \in LocalOffsets
  /\ heap = <<>>
  /\ accessed = <<>>
  /\ value = <<>>
  /\ max = <<>>
  /\ min = <<>>
  /\ result = Return(<<>>)
  /\ log = <<>>

\* The ways a function is invoked: with its options as the second argument,
\* as a method of the options object with no second argument, and as a
\* method of one object with another passed as the second argument.
Invocations(f, c) ==
  IF f \in TypeFunctions
  THEN {"explicit", "method"}
         \cup (IF c.in.type = "undefined" THEN {"both"} ELSE {})
  ELSE {"explicit"}

\* The options object a call is made on when another one is passed.
ContextOptions == [DefaultOptions EXCEPT !.name = <<"bar">>]

\* Options that default to an empty object whatever the call is made on.
ResolveOptionsWithoutThis(second, context) ==
  IF second # <<>> THEN second[1] ELSE DefaultOptions

\* function (input, options = this || {})
ResolveOptions(second, context) ==
  IF second # <<>> THEN second[1]
  ELSE IF context # <<>> THEN context[1]
  ELSE DefaultOptions

\* The function f is called with the arguments of c.
Enter(f, c, first) ==
  /\ fn' = f
  /\ given' = c.in
  /\ input' = c.in
  /\ \E how \in Invocations(f, c) :
       /\ this' = CASE how = "explicit" -> <<>>
                     [] how = "method" -> <<c.opts>>
                     [] how = "both" -> <<ContextOptions>>
       /\ passed' = IF how = "method" THEN <<>> ELSE <<c.opts>>
  /\ options' = ResolveOptions(passed', this')
  /\ pc' = first
  /\ UNCHANGED <<env, heap, accessed, value, max, min, result, log>>

\* A block whose throw ends the call without an error reaching the caller.
GotoSwallowing(at, r, next) ==
  /\ log' = Append(log, at)
  /\ pc' = IF r.threw THEN "done" ELSE next
  /\ UNCHANGED result

\* The block `at` ends with outcome r: a throw ends the call, otherwise the
\* call goes on at `next`.
Goto(at, r, next) ==
  /\ log' = Append(log, at)
  /\ IF r.threw
     THEN pc' = "done" /\ result' = r
     ELSE pc' = next /\ UNCHANGED result

\* The call returns v at the block `at`.
Finish(at, v) ==
  /\ log' = Append(log, at)
  /\ pc' = "done"
  /\ result' = Return(v)

At(f, at) == fn = f /\ pc = at

(* processIdiomaticDateTime(options, input, localTimezone) *)

CallProcessIdiomaticDateTime ==
  /\ pc = "idle"
  /\ \E c \in IdiomaticCalls : Enter("processIdiomaticDateTime", c, "extract")

RunProcessIdiomaticDateTime ==
  /\ At("processIdiomaticDateTime", "extract")
  /\ log' = Append(log, "extract")
  /\ pc' = "done"
  /\ result' = ProcessIdiomaticDateTime(options, input.toks,
                                        options.localTimezone)
  /\ UNCHANGED <<fn, given, input, options, this, passed, env, heap,
                 accessed, value, max, min>>

(* processISO8601DateTime(options, iso8601Match, localTimezone) *)

CallProcessISO8601DateTime ==
  /\ pc = "idle"
  /\ \E c \in Iso8601Calls : Enter("processISO8601DateTime", c, "extract")

RunProcessISO8601DateTime ==
  /\ At("processISO8601DateTime", "extract")
  /\ log' = Append(log, "extract")
  /\ pc' = "done"
  /\ result' = ProcessISO8601DateTime(options, Iso8601Match(input.toks),
                                      options.localTimezone)
  /\ UNCHANGED <<fn, given, input, options, this, passed, env, heap,
                 accessed, value, max, min>>

(* DateTime(input, options) *)

CallDateTime ==
  /\ pc = "idle"
  /\ \E c \in DateTimeCalls(env) : Enter("DateTime", c, "typeChecks")

DateTimeTypeChecks ==
  /\ At("DateTime", "typeChecks")
  /\ Goto("typeChecks", TypeChecks(input, options.name, StatusOr400(options)),
          "match")
  /\ UNCHANGED <<fn, given, input, options, this, passed, env, heap,
                 accessed, value, max, min>>

DateTimeMatch ==
  /\ At("DateTime", "match")
  /\ LET parsed == DateTimeParse(input.toks, options, env)
     IN /\ Goto("match", parsed, "noEod")
        /\ value' = parsed.v
  /\ UNCHANGED <<fn, given, input, options, this, passed, env, heap,
                 accessed, max, min>>

DateTimeNoEod ==
  /\ At("DateTime", "noEod")
  /\ Goto("noEod", NoEodCheck(options, value[1]), "validateInput")
  /\ UNCHANGED <<fn, given, input, options, this, passed, env, heap,
                 accessed, value, max, min>>

DateTimeValidateInput ==
  /\ At("DateTime", "validateInput")
  /\ Goto("validateInput", CheckValidateInput(options), "convertMax")
  /\ UNCHANGED <<fn, given, input, options, this, passed, env, heap,
                 accessed, value, max, min>>

DateTimeConvertMax ==
  /\ At("DateTime", "convertMax")
  /\ LET converted == ConvertBound(options.max, options.name, "max", env)
     IN /\ Goto("convertMax", converted, "convertMin")
        /\ max' = converted.v
  /\ UNCHANGED <<fn, given, input, options, this, passed, env, heap,
                 accessed, value, min>>

DateTimeConvertMin ==
  /\ At("DateTime", "convertMin")
  /\ LET converted == ConvertBound(options.min, options.name, "min", env)
     IN /\ Goto("convertMin", converted, "checkMaxMin")
        /\ min' = converted.v
  /\ UNCHANGED <<fn, given, input, options, this, passed, env, heap,
                 accessed, value, max>>

DateTimeCheckMaxMin ==
  /\ At("DateTime", "checkMaxMin")
  /\ Goto("checkMaxMin",
          CheckMaxMin(max, min, options.name, StatusOr400(options), value[1]),
          "validateValue")
  /\ UNCHANGED <<fn, given, input, options, this, passed, env, heap,
                 accessed, value, max, min>>

DateTimeValidateValue ==
  /\ At("DateTime", "validateValue")
  /\ IF CheckValidateValue(options).threw
     THEN Goto("validateValue", CheckValidateValue(options), "done")
     ELSE Finish("validateValue", value)
  /\ UNCHANGED <<fn, given, input, options, this, passed, env, heap,
                 accessed, value, max, min>>

(* TimeOfDay(input, options) *)

CallTimeOfDay ==
  /\ pc = "idle"
  /\ \E c \in TimeOfDayCalls : Enter("TimeOfDay", c, "standardChecks")

\* input = standardChecks(...); if (input === '') { return undefined }
TimeOfDayStandardChecks ==
  /\ At("TimeOfDay", "standardChecks")
  /\ LET checked == StandardChecks(input, options)
     IN IF checked.threw
        THEN Goto("standardChecks", checked, "done") /\ UNCHANGED input
        ELSE /\ input' = Trim(input)
             /\ IF input.toks = <<>>
                THEN Finish("standardChecks", <<>>)
                ELSE Goto("standardChecks", checked, "match")
  /\ UNCHANGED <<fn, given, options, this, passed, env, heap, accessed,
                 value, max, min>>

TimeOfDayMatchPatterns ==
  /\ At("TimeOfDay", "match")
  /\ Goto("match", TimeOfDayMatch(input, options), "noEod")
  /\ UNCHANGED <<fn, given, input, options, this, passed, env, heap,
                 accessed, value, max, min>>

TimeOfDayNoEod ==
  /\ At("TimeOfDay", "noEod")
  /\ Goto("noEod", TimeOfDayNoEodCheck(options, TimeOfDayIsEod(input)),
          "validateInput")
  /\ UNCHANGED <<fn, given, input, options, this, passed, env, heap,
                 accessed, value, max, min>>

TimeOfDayValidateInput ==
  /\ At("TimeOfDay", "validateInput")
  /\ Goto("validateInput", CheckValidateInput(options), "getValue")
  /\ UNCHANGED <<fn, given, input, options, this, passed, env, heap,
                 accessed, value, max, min>>

TimeOfDayGetValue ==
  /\ At("TimeOfDay", "getValue")
  /\ value' = <<GetValue(TimeOfDayIsEod(input), MilitaryTimeMatch(input),
                         WholeTimeMatch(input),
                         WholeTwentyFourHourTimeMatch(input))>>
  /\ Goto("getValue", Return(<<>>), "convertMax")
  /\ UNCHANGED <<fn, given, input, options, this, passed, env, heap,
                 accessed, max, min>>

TimeOfDayConvertMax ==
  /\ At("TimeOfDay", "convertMax")
  /\ LET converted == ConvertTimeBound(options.max, options.name, "max")
     IN /\ Goto("convertMax", converted, "convertMin")
        /\ max' = converted.v
  /\ UNCHANGED <<fn, given, input, options, this, passed, env, heap,
                 accessed, value, min>>

TimeOfDayConvertMin ==
  /\ At("TimeOfDay", "convertMin")
  /\ LET converted == ConvertTimeBound(options.min, options.name, "min")
     IN /\ Goto("convertMin", converted, "checkMaxMin")
        /\ min' = converted.v
  /\ UNCHANGED <<fn, given, input, options, this, passed, env, heap,
                 accessed, value, max>>

TimeOfDayCheckMaxMin ==
  /\ At("TimeOfDay", "checkMaxMin")
  /\ Goto("checkMaxMin",
          CheckMaxMin(max, min, options.name, options.status, value[1]),
          "validateValue")
  /\ UNCHANGED <<fn, given, input, options, this, passed, env, heap,
                 accessed, value, max, min>>

TimeOfDayValidateValue ==
  /\ At("TimeOfDay", "validateValue")
  /\ IF CheckValidateValue(options).threw
     THEN Goto("validateValue", CheckValidateValue(options), "done")
     ELSE Finish("validateValue", value)
  /\ UNCHANGED <<fn, given, input, options, this, passed, env, heap,
                 accessed, value, max, min>>

(* BooleanString(input, options) *)

CallBooleanString ==
  /\ pc = "idle"
  /\ \E c \in BooleanStringCalls :
       Enter("BooleanString", c, "standardChecks")

\* input = standardChecks(...); if (input === '') { return undefined }
BooleanStringStandardChecks ==
  /\ At("BooleanString", "standardChecks")
  /\ LET checked == StandardChecks(input, options)
     IN IF checked.threw
        THEN Goto("standardChecks", checked, "done") /\ UNCHANGED input
        ELSE /\ input' = Trim(input)
             /\ IF input.toks = <<>>
                THEN Finish("standardChecks", <<>>)
                ELSE Goto("standardChecks", checked, "convert")
  /\ UNCHANGED <<fn, given, options, this, passed, env, heap, accessed,
                 value, max, min>>

\* input = input.toLowerCase(), the disallowed forms and the value
BooleanStringConvert ==
  /\ At("BooleanString", "convert")
  /\ input' = [input EXCEPT !.toks = ToLowerCase(input.toks)]
  /\ LET converted == BooleanValue(ToLowerCase(input.toks), options)
     IN /\ Goto("convert", converted, "validateInput")
        /\ value' = converted.v
  /\ UNCHANGED <<fn, given, options, this, passed, env, heap, accessed, max,
                 min>>

BooleanStringValidateInput ==
  /\ At("BooleanString", "validateInput")
  /\ Goto("validateInput", CheckValidateInput(options), "validateValue")
  /\ UNCHANGED <<fn, given, input, options, this, passed, env, heap,
                 accessed, value, max, min>>

BooleanStringValidateValue ==
  /\ At("BooleanString", "validateValue")
  /\ IF CheckValidateValue(options).threw
     THEN Goto("validateValue", CheckValidateValue(options), "done")
     ELSE Finish("validateValue", value)
  /\ UNCHANGED <<fn, given, input, options, this, passed, env, heap,
                 accessed, value, max, min>>

(* Day(input, options) *)

CallDay ==
  /\ pc = "idle"
  /\ \E c \in DayCalls(env) : Enter("Day", c, "standardChecks")

\* input = standardChecks(...); if (input === '') { return undefined }
DayStandardChecks ==
  /\ At("Day", "standardChecks")
  /\ LET checked == StandardChecks(input, options)
     IN IF checked.threw
        THEN Goto("standardChecks", checked, "done") /\ UNCHANGED input
        ELSE /\ input' = Trim(input)
             /\ IF input.toks = <<>>
                THEN Finish("standardChecks", <<>>)
                ELSE Goto("standardChecks", checked, "match")
  /\ UNCHANGED <<fn, given, options, this, passed, env, heap, accessed,
                 value, max, min>>

DayMatchPatterns ==
  /\ At("Day", "match")
  /\ Goto("match", DayMatch(input, options), "validateInput")
  /\ UNCHANGED <<fn, given, input, options, this, passed, env, heap,
                 accessed, value, max, min>>

DayValidateInput ==
  /\ At("Day", "validateInput")
  /\ Goto("validateInput", CheckValidateInput(options), "convert")
  /\ UNCHANGED <<fn, given, input, options, this, passed, env, heap,
                 accessed, value, max, min>>

\* year, month, day and date = new Date(year, month - 1, day)
DayConvert ==
  /\ At("Day", "convert")
  /\ value' = <<DayData(DayFields(input), env)>>
  /\ Goto("convert", Return(<<>>), "convertMax")
  /\ UNCHANGED <<fn, given, input, options, this, passed, env, heap,
                 accessed, max, min>>

DayConvertMax ==
  /\ At("Day", "convertMax")
  /\ LET converted == ConvertDayBound(options.max, options.name, "max",
                                      options.status, env)
     IN /\ Goto("convertMax", converted, "convertMin")
        /\ max' = converted.v
  /\ UNCHANGED <<fn, given, input, options, this, passed, env, heap,
                 accessed, value, min>>

DayConvertMin ==
  /\ At("Day", "convertMin")
  /\ LET converted == ConvertDayBound(options.min, options.name, "min",
                                      options.status, env)
     IN /\ Goto("convertMin", converted, "checkMaxMin")
        /\ min' = converted.v
  /\ UNCHANGED <<fn, given, input, options, this, passed, env, heap,
                 accessed, value, max>>

DayCheckMaxMin ==
  /\ At("Day", "checkMaxMin")
  /\ Goto("checkMaxMin",
          CheckMaxMin(max, min, options.name, options.status, value[1]),
          "checkDay")
  /\ UNCHANGED <<fn, given, input, options, this, passed, env, heap,
                 accessed, value, max, min>>

\* day !== date.getDate(), then value = createValue(...)
DayCheckDayOfMonth ==
  /\ At("Day", "checkDay")
  /\ Goto("checkDay", CheckDayOfMonth(DayFields(input), options),
          "validateValue")
  /\ UNCHANGED <<fn, given, input, options, this, passed, env, heap,
                 accessed, value, max, min>>

DayValidateValue ==
  /\ At("Day", "validateValue")
  /\ IF CheckValidateValue(options).threw
     THEN Goto("validateValue", CheckValidateValue(options), "done")
     ELSE Finish("validateValue", value)
  /\ UNCHANGED <<fn, given, input, options, this, passed, env, heap,
                 accessed, value, max, min>>

(* CardNumber(input, options) *)

CallCardNumber ==
  /\ pc = "idle"
  /\ \E c \in CardNumberCalls : Enter("CardNumber", c, "standardChecks")

\* input = standardChecks(...); if (input === '') { return undefined }
CardNumberStandardChecks ==
  /\ At("CardNumber", "standardChecks")
  /\ LET checked == StandardChecks(input, options)
     IN IF checked.threw
        THEN Goto("standardChecks", checked, "done") /\ UNCHANGED input
        ELSE /\ input' = Trim(input)
             /\ IF input.toks = <<>>
                THEN Finish("standardChecks", <<>>)
                ELSE Goto("standardChecks", checked, "format")
  /\ UNCHANGED <<fn, given, options, this, passed, env, heap, accessed,
                 value, max, min>>

CardNumberFormat ==
  /\ At("CardNumber", "format")
  /\ Goto("format", CheckFormat(input, options), "lengths")
  /\ UNCHANGED <<fn, given, input, options, this, passed, env, heap,
                 accessed, value, max, min>>

\* numberString = input.replaceAll(rawNumberRe, '') and the lengths
CardNumberLengths ==
  /\ At("CardNumber", "lengths")
  /\ value' = <<RawNumber(input.toks)>>
  /\ Goto("lengths", CheckLengths(options, RawNumber(input.toks)), "iins")
  /\ UNCHANGED <<fn, given, input, options, this, passed, env, heap,
                 accessed, max, min>>

CardNumberIins ==
  /\ At("CardNumber", "iins")
  /\ Goto("iins", CheckIins(options, value[1]), "validateInput")
  /\ UNCHANGED <<fn, given, input, options, this, passed, env, heap,
                 accessed, value, max, min>>

CardNumberValidateInput ==
  /\ At("CardNumber", "validateInput")
  /\ Goto("validateInput", CheckValidateInput(options), "luhn")
  /\ UNCHANGED <<fn, given, input, options, this, passed, env, heap,
                 accessed, value, max, min>>

CardNumberLuhn ==
  /\ At("CardNumber", "luhn")
  /\ Goto("luhn", CheckLuhn(options, value[1]), "validateValue")
  /\ UNCHANGED <<fn, given, input, options, this, passed, env, heap,
                 accessed, value, max, min>>

CardNumberValidateValue ==
  /\ At("CardNumber", "validateValue")
  /\ IF CheckValidateValue(options).threw
     THEN Goto("validateValue", CheckValidateValue(options), "done")
     ELSE Finish("validateValue", value)
  /\ UNCHANGED <<fn, given, input, options, this, passed, env, heap,
                 accessed, value, max, min>>

(* createValue(tuple) and the calls of the methods of the value it returns *)

CallCreateValue ==
  /\ pc = "idle"
  /\ \E tuple \in CreateValueTuples :
       /\ value' = <<CreateValue(tuple, env)>>
       /\ heap' = value'[1].date
  /\ fn' = "createValue"
  /\ pc' = "created"
  /\ log' = Append(log, "createValue")
  /\ UNCHANGED <<given, input, options, this, passed, env, accessed, max, min,
                 result>>

\* The caller calls a method of the value.
CallAccessor ==
  /\ At("createValue", "created")
  /\ Len(accessed) < MaxAccessorCalls
  /\ \E a \in Accessors :
       LET call == Access(a, value[1], heap)
       IN /\ accessed' = Append(accessed, [accessor |-> a,
                                           result |-> call.result])
          /\ heap' = call.heap
  /\ UNCHANGED <<fn, pc, given, input, options, this, passed, env, value, max,
                 min, result, log>>

Next ==
  \/ CallProcessIdiomaticDateTime
  \/ RunProcessIdiomaticDateTime
  \/ CallProcessISO8601DateTime
  \/ RunProcessISO8601DateTime
  \/ CallDateTime
  \/ DateTimeTypeChecks
  \/ DateTimeMatch
  \/ DateTimeNoEod
  \/ DateTimeValidateInput
  \/ DateTimeConvertMax
  \/ DateTimeConvertMin
  \/ DateTimeCheckMaxMin
  \/ DateTimeValidateValue
  \/ CallTimeOfDay
  \/ TimeOfDayStandardChecks
  \/ TimeOfDayMatchPatterns
  \/ TimeOfDayNoEod
  \/ TimeOfDayValidateInput
  \/ TimeOfDayGetValue
  \/ TimeOfDayConvertMax
  \/ TimeOfDayConvertMin
  \/ TimeOfDayCheckMaxMin
  \/ TimeOfDayValidateValue
  \/ CallBooleanString
  \/ BooleanStringStandardChecks
  \/ BooleanStringConvert
  \/ BooleanStringValidateInput
  \/ BooleanStringValidateValue
  \/ CallDay
  \/ DayStandardChecks
  \/ DayMatchPatterns
  \/ DayValidateInput
  \/ DayConvert
  \/ DayConvertMax
  \/ DayConvertMin
  \/ DayCheckMaxMin
  \/ DayCheckDayOfMonth
  \/ DayValidateValue
  \/ CallCardNumber
  \/ CardNumberStandardChecks
  \/ CardNumberFormat
  \/ CardNumberLengths
  \/ CardNumberIins
  \/ CardNumberValidateInput
  \/ CardNumberLuhn
  \/ CardNumberValidateValue
  \/ CallCreateValue
  \/ CallAccessor

Spec == Init /\ [][Next]_vars

-----------------------------------------------------------------------------
(* Properties *)

\* The call of f has ended.
Done(f) == fn = f /\ pc = "done"

\* The call threw an error with this issue.
Failed(issue) == result.threw /\ result.err.issue = issue

\* The grammars that read a phrase of kind k.
GrammarsOf(k) ==
  CASE k = "short" -> {"us", "intl"}
    [] k \in {"rfcDay", "us", "intl", "mil", "t12", "t24"} -> {k}
    [] OTHER -> {}

\* The date grammars, and the time grammars, that match some phrase of toks.
DateGrammars(toks) ==
  {g \in {"rfcDay", "us", "intl"} :
     \E i \in 1..Len(toks) : g \in GrammarsOf(toks[i].k)}

TimeGrammars(toks) ==
  {g \in {"mil", "t12", "t24"} :
     \E i \in 1..Len(toks) : g \in GrammarsOf(toks[i].k)}

\* The first phrase of each time grammar in toks.
FirstTimes(toks) ==
  {toks[i] : i \in {j \in 1..Len(toks) :
                      /\ toks[j].k \in {"mil", "t12", "t24"}
                      /\ \A h \in 1..(j - 1) : toks[h].k # toks[j].k}}

\* C1: processIdiomaticDateTime returns a tuple only when exactly one date
\* grammar matched; when a time grammar matched, zero date matches fail with
\* 'does not contain a recognizable date component' and more than one with
\* 'date component is ambiguous'; when no time grammar matched, the call
\* fails with 'does not contain a recognizable time component' whatever the
\* date matches are.
C1_DateGrammarCount ==
  Done("processIdiomaticDateTime") =>
    LET dates == DateGrammars(input.toks)
        times == TimeGrammars(input.toks)
    IN /\ ~result.threw => Cardinality(dates) = 1
       /\ times # {} /\ dates = {}
            => Failed("does not contain a recognizable date component")
       /\ times # {} /\ Cardinality(dates) > 1
            => Failed("date component is ambiguous")
       /\ times = {}
            => Failed("does not contain a recognizable time component")

\* A text with a time and a date that reads as two grammars was rejected as
\* ambiguous.
C1_Witness ==
  /\ Done("processIdiomaticDateTime")
  /\ TimeGrammars(input.toks) # {}
  /\ Cardinality(DateGrammars(input.toks)) > 1
  /\ Failed("date component is ambiguous")

\* C1 as stated: zero date matches always fail with the date message and
\* more than one always with the ambiguity message.
C1_AsStated ==
  Done("processIdiomaticDateTime") =>
    LET dates == DateGrammars(input.toks)
    IN /\ ~result.threw => Cardinality(dates) = 1
       /\ dates = {}
            => Failed("does not contain a recognizable date component")
       /\ Cardinality(dates) > 1 => Failed("date component is ambiguous")

\* C2: processIdiomaticDateTime returns a tuple only when exactly one time
\* grammar matched; zero time matches and more than one time match are both
\* errors.
C2_TimeGrammarCount ==
  Done("processIdiomaticDateTime") =>
    /\ ~result.threw => Cardinality(TimeGrammars(input.toks)) = 1
    /\ Cardinality(TimeGrammars(input.toks)) # 1 => result.threw

\* C3: every tuple an extractor returns has hours = 24 and minutes = seconds
\* = fractionalSeconds = 0 when isEndOfDay is true, and hours in 0..23 when
\* it is false.
C3_EndOfDayInvariant ==
  (Done("processIdiomaticDateTime") \/ Done("processISO8601DateTime"))
  /\ ~result.threw =>
    LET t == result.v[1]
    IN IF t.isEod
       THEN t.hours = 24 /\ t.minutes = 0 /\ t.seconds = 0 /\ t.fracSeconds = 0
       ELSE t.hours \in 0..23

\* a <= b on numbers ([hi, lo] pairs); a comparison with NaN is false
Leq(a, b) ==
  /\ a.hi # NaN
  /\ b.hi # NaN
  /\ (a.hi < b.hi \/ (a.hi = b.hi /\ a.lo <= b.lo))

\* C4: the range check of DateTime passes if and only if (min is absent or
\* min <= v) and (max is absent or v <= max) by timestamp; otherwise the
\* call fails with an out-of-range error named after the violated bound and
\* carrying that bound.
C4_RangeCheck ==
  fn = "DateTime" /\ log # <<>> /\ log[Len(log)] = "checkMaxMin" =>
    LET v == ValueOf(value[1])
        maxHolds == max = <<>> \/ Leq(v, ValueOf(max[1]))
        minHolds == min = <<>> \/ Leq(ValueOf(min[1]), v)
    IN /\ pc # "done" <=> (maxHolds /\ minHolds)
       /\ pc = "done" =>
            /\ result.threw
            /\ result.err.kind = "ArgumentOutOfRangeError"
            /\ \/ /\ ~maxHolds
                  /\ result.err.name = <<"foo", "constraint", "max">>
                  /\ result.err.bound = max
               \/ /\ ~minHolds
                  /\ result.err.name = <<"foo", "constraint", "min">>
                  /\ result.err.bound = min

\* The day of the instant a bound denotes, as a set ({} for any other bound).
DayOf(bound) ==
  {d \in 1..MaxBoundDay : \E rep \in BoundReps : bound = BoundAs(rep, d, env)}

\* pass or fail, and the class of the failure
Verdict(r) == <<r.threw, r.err.kind>>

\* C5: a DateTime call gives the same pass/fail result whether an instant
\* is given as max or min bound as a string with an explicit zone, as epoch
\* milliseconds, as a Date or as a DateTime value.
C5_BoundRepresentation ==
  Done("DateTime") =>
    /\ \A d \in DayOf(options.max), rep \in BoundReps :
         Verdict(DateTime(input, [options EXCEPT !.max = BoundAs(rep, d, env)],
                          env)) = Verdict(result)
    /\ \A d \in DayOf(options.min), rep \in BoundReps :
         Verdict(DateTime(input, [options EXCEPT !.min = BoundAs(rep, d, env)],
                          env)) = Verdict(result)

\* A subject was rejected by a max bound given as epoch milliseconds.
C5_Witness ==
  /\ Done("DateTime")
  /\ options.max.rep = "number"
  /\ DayOf(options.max) # {}
  /\ result.threw
  /\ result.err.kind = "ArgumentOutOfRangeError"
  /\ result.err.name = <<"foo", "constraint", "max">>

\* The offset in minutes of the timezones written in the model.
ZoneMinutes(z) ==
  CASE z = TzMinus0230 -> Num(0 - 150)
    [] z = TzPlus0100 -> Num(60)
    [] z = TzZ -> Num(0)
    [] z = undefined -> NoNum

\* The timezones captured with the first phrase of each time grammar.
CapturedZones(toks) == {t.tz : t \in FirstTimes(toks)} \ {undefined}

\* C6: the offset of a tuple is that of a timezone captured from the input
\* whenever there is one, otherwise that of localTimezone, otherwise
\* undefined, in the idiomatic and in the ISO 8601 extractor.
C6_TimezonePrecedence ==
  /\ Done("processIdiomaticDateTime") /\ ~result.threw =>
       LET offset == result.v[1].timezoneOffset
           captured == CapturedZones(input.toks)
       IN IF captured # {}
          THEN offset \in {ZoneMinutes(z) : z \in captured}
          ELSE offset = ZoneMinutes(options.localTimezone)
  /\ Done("processISO8601DateTime") /\ ~result.threw =>
       LET offset == result.v[1].timezoneOffset
       IN IF input.toks[1].tz # undefined
          THEN offset = ZoneMinutes(input.toks[1].tz)
          ELSE offset = ZoneMinutes(options.localTimezone)

\* A timezone written in the input was used although localTimezone was given.
C6_Witness ==
  /\ Done("processIdiomaticDateTime")
  /\ ~result.threw
  /\ CapturedZones(input.toks) = {TzMinus0230}
  /\ options.localTimezone = TzPlus0100
  /\ result.v[1].timezoneOffset = Num(0 - 150)

\* The hours of the 12-hour time h am / h pm.
TwelveHourRule(h, pm) ==
  IF ~pm THEN h ELSE IF h + 12 = 24 THEN 0 ELSE h + 12

\* The 12-hour phrases of toks.
TwelveHourTimes(toks) == {t \in FirstTimes(toks) : t.k = "t12"}

\* The hours a 12-hour phrase denotes.
HoursOf(t) ==
  TwelveHourRule(ParseInt(t.h), ToLowerCase(t.ap) = <<"p", "m">>)

\* C7: for a 12-hour time with nominal hour h the hours field is h for AM
\* and h + 12, with 24 wrapped to 0, for PM, in the idiomatic extractor and
\* in TimeOfDay alike, and it is in 0..23.
C7_TwelveHourRule ==
  /\ Done("processIdiomaticDateTime") /\ ~result.threw =>
       \A t \in TwelveHourTimes(input.toks) :
         /\ result.v[1].hours = HoursOf(t)
         /\ result.v[1].hours \in 0..23
  /\ Done("TimeOfDay") /\ ~result.threw /\ result.v # <<>> =>
       \A t \in TwelveHourTimes(input.toks) :
         /\ result.v[1].tuple.hours = HoursOf(t)
         /\ result.v[1].tuple.hours \in 0..23

\* C8: a type function given the empty string returns undefined without any
\* other validation, unless required is true, and then it throws
\* ArgumentMissingError with issue 'is required'.
C8_EmptyString ==
  fn \in {"DateTime", "TimeOfDay"} /\ pc = "done"
  /\ input.type = "string" /\ input.toks = <<>> =>
    IF options.required
    THEN /\ result.threw
         /\ result.err.kind = "ArgumentMissingError"
         /\ result.err.issue = "is required"
    ELSE result = Return(<<>>) /\ Len(log) = 1

\* C9: DateTime throws "uses disallowed special EOD time '24:00'" exactly
\* when noEod is true and the parsed value is the end of day, and the
\* outcome of every other input is the same with and without noEod.
C9_NoEodOnlyEndOfDay ==
  Done("DateTime") =>
    LET isEod == value # <<>> /\ value[1].tuple.isEod
    IN /\ Failed("uses disallowed special EOD time '24:00'")
            <=> (options.noEod /\ isEod)
       /\ ~isEod =>
            result = DateTime(input, [options EXCEPT !.noEod = ~options.noEod],
                              env)

\* An end-of-day input was rejected under noEod.
C9_Witness ==
  /\ Done("DateTime")
  /\ options.noEod
  /\ value # <<>>
  /\ value[1].tuple.isEod
  /\ Failed("uses disallowed special EOD time '24:00'")

\* C10: TimeOfDay with noEod = true rejects the end-of-day times and still
\* accepts and returns every other valid time of day.
C10_NoEodOnlyEndOfDay ==
  Done("TimeOfDay") /\ options.noEod
  /\ options.max = NoBound /\ options.min = NoBound
  /\ options.validateInput = "undefined" /\ options.validateValue = "undefined"
  /\ Len(input.toks) = 1
  /\ input.toks[1].k \in {"mil", "t12", "t24"}
  /\ input.toks[1].tz = undefined =>
    IF input.toks[1].eod # undefined
    THEN Failed("special 'end-of-day' time disallowed")
    ELSE ~result.threw /\ result.v # <<>>

\* The bound is of a type DateTime does not convert.
Nonconvertible(bound) == bound.rep \in {"other", "null"}

\* The error of a nonconvertible bound, as the claim describes it.
NonconvertibleError(which) ==
  Error("ArgumentTypeError", ConstraintName(options.name, which),
        "is nonconvertible type", Num(500), <<>>)

\* C11: a DateTime call whose input passed every stage before the bounds are
\* converted, and whose max or min is of a nonconvertible type (a RegExp, a
\* boolean, a plain object, null) while the other bound is undefined, throws
\* ArgumentTypeError named after the constraint, with issue 'is
\* nonconvertible type' and status 500, and no other kind of error.
C11_NonconvertibleBound ==
  Done("DateTime") /\ value # <<>>
  /\ (\E i \in 1..Len(log) : log[i] = "convertMax") =>
    /\ Nonconvertible(options.max) /\ options.min = NoBound =>
         result = Throw(NonconvertibleError("max"))
    /\ Nonconvertible(options.min) /\ options.max = NoBound =>
         result = Throw(NonconvertibleError("min"))

\* The type functions of the model.

\* The stage at was run in the call.
Ran(at) == \E i \in 1..Len(log) : log[i] = at

\* The outcome of the stage that invokes a hook: the hook passes when there
\* is none or it returns true, fails with its own explanation when it
\* returns a string, and fails unexplained on any other result.
HookOutcome(hook, validationType) ==
  CASE hook \in {"undefined", "true"} -> "passes"
    [] hook = "string" -> HookExplanation
    [] OTHER -> IF validationType = "input"
                THEN "failed custom input validation"
                ELSE "failed custom value validation"

\* The call ended in the stage at, with ArgumentInvalidError and this issue.
FailedAt(at, issue) ==
  /\ log[Len(log)] = at
  /\ result.threw
  /\ result.err.kind = "ArgumentInvalidError"
  /\ result.err.issue = issue

HooksInOrder ==
  /\ \A i, j \in 1..Len(log) :
       log[i] = "validateInput" /\ log[j] = "validateValue" => i < j
  /\ Ran("validateValue") =>
       /\ Ran("validateInput")
       /\ log[Len(log)] = "validateValue"
  /\ pc = "done" /\ Ran("validateInput") /\ ~Ran("validateValue") =>
       result.threw

\* C13: in every type function validateInput is invoked after the other
\* input validations and before the input is converted to a value (the
\* local `value` is still undefined when the hook is called), validateValue
\* is invoked after every native value validation, validateInput comes
\* before validateValue, and validateValue is not invoked when validateInput
\* failed.
C13_HookOrder ==
  fn \in TypeFunctions =>
    /\ pc = "validateInput" => value = <<>>
    /\ HooksInOrder

\* C14: the validateInput hook of every type function is called with the
\* input string exactly as the caller passed it, neither trimmed nor
\* lower-cased: the local `input` handed to checkValidateInput, which is also
\* the input field of the hook's options, is the call's first argument.
C14_HookSeesOriginalInput ==
  fn \in TypeFunctions /\ pc = "validateInput" => input = given

\* The stages of a DateTime call, in the order of its statements.
DateTimeStages ==
  <<"typeChecks", "match", "noEod", "validateInput", "convertMax",
    "convertMin", "checkMaxMin", "validateValue">>

\* The outcome of stage i of the DateTime call, computed from the call's
\* arguments and the locals the earlier stages left.
DateTimeStageOutcome(i) ==
  CASE i = 1 -> TypeChecks(given, options.name, StatusOr400(options))
    [] i = 2 -> DateTimeParse(given.toks, options, env)
    [] i = 3 -> NoEodCheck(options, value[1])
    [] i = 4 -> CheckValidateInput(options)
    [] i = 5 -> ConvertBound(options.max, options.name, "max", env)
    [] i = 6 -> ConvertBound(options.min, options.name, "min", env)
    [] i = 7 -> CheckMaxMin(max, min, options.name, StatusOr400(options),
                            value[1])
    [] i = 8 -> CheckValidateValue(options)

\* C15: a DateTime call has exactly one outcome.  Its stages run in order,
\* each at most once; the first stage that fails ends the call with that
\* stage's error and no later stage runs; a value is returned only when all
\* eight stages passed.
C15_SingleOutcome ==
  Done("DateTime") =>
    /\ Len(log) \in 1..8
    /\ log = SubSeq(DateTimeStages, 1, Len(log))
    /\ \A i \in 1..(Len(log) - 1) : ~DateTimeStageOutcome(i).threw
    /\ IF DateTimeStageOutcome(Len(log)).threw
       THEN result = DateTimeStageOutcome(Len(log))
       ELSE Len(log) = 8 /\ result = Return(value) /\ value # <<>>

\* The range check failed after six stages had passed.
C15_Witness ==
  /\ Done("DateTime")
  /\ Len(log) = 7
  /\ result.threw
  /\ result.err.kind = "ArgumentOutOfRangeError"

\* The number of days of a month of the Gregorian calendar.
DaysInMonth(year, month) ==
  IF month = 2
  THEN IF year % 4 = 0 /\ (year % 100 # 0 \/ year % 400 = 0) THEN 29 ELSE 28
  ELSE IF month \in {4, 6, 9, 11} THEN 30 ELSE 31

\* year-month-day is a day of the calendar.
RealDate(year, month, day) ==
  month \in 1..12 /\ day \in 1..DaysInMonth(year, month)

\* The call's input is a string that writes a day no calendar has.
ImpossibleInput ==
  /\ given.type = "string"
  /\ given.toks # <<>>
  /\ given.toks[1] \in ImpossibleDays

\* The bound can be converted: it is undefined, a string that parses, a
\* number, a Date or a value object.
Convertible(bound) ==
  \/ bound.rep \in {"undefined", "number", "Date", "Day", "DateTime"}
  \/ bound.rep = "string" /\ bound.toks # <<Blank>> /\ bound.toks # TwoTimesText

\* C16: DateTime and Day never return a value whose year, month and day are
\* not a day of the calendar, and an input that writes an impossible day
\* (30 February, 31 April, 29 February of a common year) is rejected with
\* the invalid-day error, with or without min and max.
C16_CalendarDate ==
  fn \in {"DateTime", "Day"} /\ pc = "done" =>
    /\ ~result.threw /\ result.v # <<>> =>
         RealDate(result.v[1].tuple.year, result.v[1].tuple.month,
                  result.v[1].tuple.day)
    /\ /\ ImpossibleInput
       /\ options.validateInput = "undefined"
       /\ Convertible(options.max)
       /\ Convertible(options.min)
       => Failed(InvalidDayIssue)

-----------------------------------------------------------------------------
(* C18: fractional hours and minutes of ISO input *)

\* Math.round of the non-negative rational num / den
RoundDiv(num, den) == (2 * num + den) \div (2 * den)

\* The fraction 0.ds as the rational <<numerator, denominator>>
Rational(ds) == <<ParseDigits(ds), Pow10(Len(ds))>>

\* round(num / den, 5 decimals) for den a power of ten, in 1 / FracUnit
RoundTo5(num, den) ==
  (IF den <= fracSecondsPrecision
   THEN num * (fracSecondsPrecision \div den)
   ELSE RoundDiv(num, den \div fracSecondsPrecision))
    * (FracUnit \div fracSecondsPrecision)

\* <<floor(60g), round(frac(60g), 5 decimals)>> for g = num / den
SecondsOfMinutes(num, den) ==
  <<(60 * num) \div den, RoundTo5((60 * num) % den, den)>>

\* <<floor(60f), floor(60 frac(60f)), round(frac(60 frac(60f)), 5 decimals)>>
MinutesOfHours(num, den) ==
  <<(60 * num) \div den>> \o SecondsOfMinutes((60 * num) % den, den)

\* C18: for ISO input with a fraction of hours f the ISO extractor yields
\* minutes = floor(60f), seconds = floor(60 frac(60f)) and fractionalSeconds
\* = frac(60 frac(60f)) rounded to 5 decimals, and for a fraction of minutes
\* g it yields seconds = floor(60g) and fractionalSeconds = frac(60g) rounded
\* to 5 decimals, computed exactly.
C18_FractionalConversion ==
  Done("processISO8601DateTime") /\ ~result.threw =>
    LET m == Iso8601Match(input.toks)
        t == result.v[1]
        got == <<t.minutes, t.seconds, t.fracSeconds>>
    IN /\ m[11] # undefined =>
            got = MinutesOfHours(Rational(m[11])[1], Rational(m[11])[2])
       /\ m[11] = undefined /\ m[14] # undefined =>
            got = <<ParseInt(m[13])>>
                  \o SecondsOfMinutes(Rational(m[14])[1], Rational(m[14])[2])

-----------------------------------------------------------------------------
(* C19: the ranges of minutes, seconds and fractionalSeconds *)

Extractors == {"processIdiomaticDateTime", "processISO8601DateTime"}

\* The tuples an extractor has returned: the result of an extractor called
\* alone, the tuple inside the value DateTime built.
ExtractedTuples ==
  IF fn \in Extractors /\ pc = "done" /\ ~result.threw THEN {result.v[1]}
  ELSE IF fn = "DateTime" /\ value # <<>> THEN {value[1].tuple}
  ELSE {}

\* C19: every tuple an extractor returns has minutes in 0..59, seconds in
\* 0..59 and fractionalSeconds at least 0 and less than 1; the rounded
\* fraction of an ISO fraction of hours or minutes never reaches 1.
C19_FieldRanges ==
  \A t \in ExtractedTuples :
    /\ t.minutes \in 0..59
    /\ t.seconds \in 0..59
    /\ t.fracSeconds >= 0
    /\ t.fracSeconds < FracUnit

-----------------------------------------------------------------------------
(* C20: one rounding rule for fractionalSeconds *)

\* The fraction of a second the grammar of toks captures, undefined when it
\* captures none.
CapturedFraction(toks) ==
  IF Iso8601Match(toks) # <<>> THEN Iso8601Match(toks)[16]
  ELSE IF Rfc2822Match(toks) # <<>> \/ IdiomaticIsEOD(toks) THEN undefined
  ELSE Or(G(TimeMatch(toks), 4),
          Or(G(TwentyFourHourTimeMatch(toks), 5), <<"0">>))

\* C20: in every grammar the stored fractionalSeconds has at most 5 decimal
\* digits, and when the input has a fraction of a second (ISO or idiomatic)
\* it is that fraction rounded to 5 decimal digits.
C20_OneRoundingRule ==
  \A t \in ExtractedTuples :
    /\ t.fracSeconds % (FracUnit \div fracSecondsPrecision) = 0
    /\ CapturedFraction(input.toks) # undefined =>
         t.fracSeconds = RoundTo5(Rational(CapturedFraction(input.toks))[1],
                                  Rational(CapturedFraction(input.toks))[2])

-----------------------------------------------------------------------------
(* C17: the round trip through the canonical string *)

\* value.toString()
CanonicalString(v) ==
  MakeDateTimeString(v.tuple.year, v.tuple.month, v.tuple.day, v.tuple.hours,
                     v.tuple.minutes, v.tuple.seconds, v.tuple.fracSeconds,
                     v.tz)

\* DateTime(value.toString(), { name })
Reparsed(v, localOffset) ==
  DateTime(StringInput(CanonicalString(v)), NamedOptions, localOffset)

\* DateTime returned a value for an input of the ISO-8601 grammar.
AcceptedIso ==
  /\ Done("DateTime")
  /\ ~result.threw
  /\ given.type = "string"
  /\ Iso8601Match(given.toks) # <<>>

\* C17: for every string DateTime accepts as ISO-8601, parsing the canonical
\* string of the result succeeds and gives a value with the same valueOf().
C17_RoundTrip ==
  AcceptedIso =>
    With(Reparsed(result.v[1], env),
         LAMBDA again : /\ ~again.threw
                        /\ ValueOf(again.v[1]) = ValueOf(result.v[1]))

\* The round trip of an ISO string with a fraction of an hour and no
\* timezone, read in a runtime west of Greenwich.
C17_Witness ==
  /\ AcceptedIso
  /\ \/ given.toks[1].fh # undefined
     \/ given.toks[1].tz = undefined /\ env # 0
  /\ ~Reparsed(result.v[1], env).threw
  /\ ValueOf(Reparsed(result.v[1], env).v[1]) = ValueOf(result.v[1])

-----------------------------------------------------------------------------
(* C22: week dates and ordinal dates *)

\* The call ended with the error the extractor has for the form of date of
\* the match m, when m is a week date or an ordinal date.
RejectedByForm(m) ==
  /\ m[5] # undefined => Failed(WeekIssue)
  /\ (m[5] = undefined /\ m[7] # undefined) => Failed(OrdinalIssue)

\* C22: the ISO extractor rejects every match that is a week-of-year date
\* with 'does not support week of year style dates' and every match that is
\* an ordinal date with 'does not support day of year/ordinal/Julian style
\* dates', called on its own or by DateTime; it returns no tuple for either.
C22_WeekAndOrdinalRejected ==
  /\ Done("processISO8601DateTime") => RejectedByForm(Iso8601Match(input.toks))
  /\ (Done("DateTime") /\ given.type = "string"
        /\ Iso8601Match(given.toks) # <<>>)
       => RejectedByForm(Iso8601Match(given.toks))

C22_Witness ==
  /\ Done("DateTime")
  /\ given.type = "string"
  /\ Iso8601Match(given.toks) # <<>>
  /\ Iso8601Match(given.toks)[7] # undefined
  /\ Failed(OrdinalIssue)

-----------------------------------------------------------------------------
(* C23: the type of the input *)

\* C23: a call of a type function whose input is not a string ends in its
\* first statement block: with ArgumentMissingError when the input is
\* undefined or null, with ArgumentTypeError when it is of any other type;
\* no other block (pattern matching, range check, hook) runs.
C23_TypeCheckedFirst ==
  (fn \in TypeFunctions /\ pc = "done" /\ given.type # "string")
    => /\ result.threw
       /\ result.err.kind = IF given.type \in {"undefined", "null"}
                            THEN "ArgumentMissingError"
                            ELSE "ArgumentTypeError"
       /\ Len(log) = 1
       /\ log[1] \in {"typeChecks", "standardChecks"}

C23_Witness ==
  /\ Done("Day")
  /\ given.type = "number"
  /\ result.threw
  /\ result.err.kind = "ArgumentTypeError"
  /\ log = <<"standardChecks">>

-----------------------------------------------------------------------------
(* C27: the time component is checked before the date component *)

\* C27: a call of processIdiomaticDateTime on an input no time grammar
\* matches fails with 'does not contain a recognizable time component',
\* whether the input has no date phrase, one, or an ambiguous one; the two
\* errors about the date component are thrown only when a time grammar
\* matched.
C27_TimeCheckedBeforeDate ==
  Done("processIdiomaticDateTime")
    => /\ TimeGrammars(input.toks) = {} => Failed(NoTimeIssue)
       /\ (Failed(NoDateIssue) \/ Failed(AmbiguousIssue))
            => TimeGrammars(input.toks) # {}

C27_Witness ==
  /\ Done("processIdiomaticDateTime")
  /\ TimeGrammars(input.toks) = {}
  /\ Cardinality(DateGrammars(input.toks)) = 2
  /\ Failed(NoTimeIssue)

-----------------------------------------------------------------------------
(* C28: one extractor per call *)

\* The outcome of the extractor the precedence of the claim selects for toks.
SelectedExtractor(toks, opts) ==
  IF Rfc2822Match(toks) # <<>>
  THEN ProcessRFC2822DateTime(opts, Rfc2822Match(toks), opts.localTimezone)
  ELSE IF Iso8601Match(toks) # <<>>
  THEN ProcessISO8601DateTime(opts, Iso8601Match(toks), opts.localTimezone)
  ELSE ProcessIdiomaticDateTime(opts, toks, opts.localTimezone)

-----------------------------------------------------------------------------
(* C29: localTimezone and the bounds *)

\* The call has localTimezone and a string bound with the text of its input,
\* which names no timezone.
SameZonelessTextBound ==
  /\ given.type = "string"
  /\ given.toks \in ZonelessTexts
  /\ options.localTimezone # undefined
  /\ \E b \in {options.max, options.min} :
       b.rep = "string" /\ b.toks = given.toks

\* C29: a DateTime call with option localTimezone whose string max or min
\* bound has the text of the input, with no timezone in it, passes the range
\* check: the bound denotes the instant the input denotes.
C29_BoundUsesLocalTimezone ==
  (fn = "DateTime" /\ SameZonelessTextBound
     /\ log # <<>> /\ log[Len(log)] = "checkMaxMin")
    => /\ pc # "done"
       /\ max # <<>> => ValueOf(max[1]) = ValueOf(value[1])
       /\ min # <<>> => ValueOf(min[1]) = ValueOf(value[1])

\* The same without localTimezone: the input and the bound are both read in
\* the timezone of the runtime.
C29_WithoutLocalTimezone ==
  (fn = "DateTime" /\ given.type = "string" /\ given.toks \in ZonelessTexts
     /\ options.localTimezone = undefined
     /\ (\E b \in {options.max, options.min} :
           b.rep = "string" /\ b.toks = given.toks)
     /\ log # <<>> /\ log[Len(log)] = "checkMaxMin")
    => pc # "done"

-----------------------------------------------------------------------------
(* C25: the value of BooleanString *)

\* The text of the input in lower case.
LowerText == ToLowerCase(given.toks)

\* The text is a whole number with an optional minus sign.
IsNumberText(t) ==
  /\ t # <<>>
  /\ \A i \in 1..Len(t) : IsDigit(t[i]) \/ (i = 1 /\ t[i] = "-")
  /\ \E i \in 1..Len(t) : IsDigit(t[i])

IsZeroText(t) ==
  IsNumberText(t) /\ \A i \in 1..Len(t) : t[i] \in {"-", "0"}

IsNegativeText(t) == IsNumberText(t) /\ t[1] = "-" /\ ~IsZeroText(t)

IsPositiveText(t) == IsNumberText(t) /\ t[1] # "-" /\ ~IsZeroText(t)

\* The texts the claim gives the value true, and those it gives false.
MeansTrue(t) ==
  \/ t \in {<<"t", "r", "u", "e">>, <<"t">>, <<"y", "e", "s">>, <<"y">>}
  \/ IsPositiveText(t)

MeansFalse(t, opts) ==
  \/ t \in {<<"f", "a", "l", "s", "e">>, <<"f">>, <<"n", "o">>, <<"n">>}
  \/ IsZeroText(t)
  \/ (opts.treatNegativeValuesAsFalse /\ IsNegativeText(t))

\* No option disallows a form of the input and no hook is given.
NothingDisallowed(opts) ==
  /\ ~opts.noAbbreviations /\ ~opts.noYesNo /\ ~opts.noNumeric
  /\ opts.validateInput = "undefined" /\ opts.validateValue = "undefined"

-----------------------------------------------------------------------------
(* C24: the options taken from `this` *)

\* The call is made as a method of an options object, with no second
\* argument.
CalledAsMethod ==
  fn \in TypeFunctions /\ pc # "idle" /\ this # <<>> /\ passed = <<>>

\* The outcome of calling f with the options o passed as the second argument.
OutcomeWithOptionsPassed(f, in, o) ==
  CASE f = "DateTime" -> DateTime(in, o, env)
    [] f = "TimeOfDay" -> TimeOfDay(in, o)
    [] f = "Day" -> Day(in, o, env)

\* C24: a type function called as a method of the object o, with no second
\* argument, runs with o as its options, and ends with the outcome of the
\* call that passes o as the second argument; an object passed as the second
\* argument is used whatever the function is called on.
C24_MethodCallSameAsExplicit ==
  /\ CalledAsMethod => options = this[1]
  /\ passed # <<>> => options = passed[1]
  /\ CalledAsMethod /\ pc = "done" /\ fn \in {"DateTime", "TimeOfDay", "Day"}
       => result = OutcomeWithOptionsPassed(fn, given, this[1])

C24_Witness ==
  /\ CalledAsMethod
  /\ pc = "done"
  /\ fn = "DateTime"
  /\ this[1].max.rep = "string"
  /\ Failed("is out of range")

-----------------------------------------------------------------------------
(* C21: a created value answers the same at every call *)

\* C21: whatever methods of a created value have been called, only the Date
\* createValue built exists, every getDate call returned that very object,
\* and two calls of the same method returned the same result.
C21_SameAnswerEveryCall ==
  At("createValue", "created") =>
    /\ Len(heap) = 1
    /\ \A i \in 1..Len(accessed) :
         /\ accessed[i].accessor = "getDate" => accessed[i].result = Ref(DateRef)
         /\ \A j \in 1..Len(accessed) :
              accessed[i].accessor = accessed[j].accessor
                => accessed[i].result = accessed[j].result

C21_Witness ==
  /\ At("createValue", "created")
  /\ Len(accessed) = 2
  /\ accessed[1].accessor = "getDate"
  /\ accessed[2].accessor = "getDate"
  /\ accessed[2].result = accessed[1].result
  /\ value[1].tuple.timezoneOffset = NoNum

-----------------------------------------------------------------------------
(* C30: the conversion of a bound nests one call and ends *)

BoundFunctions == {"DateTime", "TimeOfDay", "Day"}

RECURSIVE NestingDepth(_, _, _)
\* The number of calls of f nested in one another that the conversion of the
\* bounds of opts makes, counted up to `fuel`.
NestingDepth(f, opts, fuel) ==
  IF fuel = 0 THEN 0
  ELSE LET Below(bound, which) ==
             IF Reenters(f, bound)
             THEN 1 + NestingDepth(f, NestedOptions(f, bound, opts.name, which),
                                   fuel - 1)
             ELSE 0
           mx == Below(opts.max, "max")
           mn == Below(opts.min, "min")
       IN IF mx > mn THEN mx ELSE mn

\* Options with no bound and no custom check.
Bare(opts) ==
  /\ opts.max = NoBound
  /\ opts.min = NoBound
  /\ opts.validateInput = "undefined"
  /\ opts.validateValue = "undefined"

\* In every call of DateTime, TimeOfDay and Day the call that converts a
\* bound receives options with no bound and no custom check, so that calls
\* nest one deep at most.
NestsOnce ==
  fn \in BoundFunctions /\ pc # "idle" =>
    /\ NestingDepth(fn, options, 3) <= 1
    /\ \A which \in {"max", "min"} :
         LET bound == IF which = "max" THEN options.max ELSE options.min
         IN Reenters(fn, bound)
              => Bare(NestedOptions(fn, bound, options.name, which))

\* Every step of a call runs one more statement block.
OneMoreBlock == fn \in BoundFunctions => Len(log') = Len(log) + 1

\* C30: every call of DateTime, TimeOfDay and Day ends: every step of a call
\* runs one more statement block and no call runs more than ten; the call
\* that converts a bound is given no bound and no custom check, and calls
\* nest one deep at most.
C30_BoundsNestOnceAndEnd ==
  /\ [](NestsOnce /\ Len(log) <= 10)
  /\ [][OneMoreBlock]_vars

C30_Witness ==
  /\ Done("DateTime")
  /\ options.max.rep = "string"
  /\ options.validateValue = "true"
  /\ options.validateInput = "true"
  /\ NestingDepth("DateTime", options, 3) = 1
  /\ ~result.threw

-----------------------------------------------------------------------------
(* C26: what CardNumber returns *)

\* The number starts with the entry: with the text of a string or a number,
\* with a match of a regular expression, or with as many digits as the two
\* ends of a range have, of a value from the one end to the other.
StartsWithEntry(s, iin) ==
  IF iin.kind = "RegExp"
  THEN \E i \in 1..Len(iin.alts) : StartsWith(s, iin.alts[i].text)
  ELSE LET range == Split(iin.text)
       IN \/ Len(range) = 1 /\ StartsWith(s, range[1])
          \/ /\ Len(range) = 2
             /\ Len(range[1]) = Len(range[2])
             /\ Len(s) >= Len(range[1])
             /\ Between(ParseInt(range[1]),
                        ParseInt(SubSeq(s, 1, Len(range[1]))),
                        ParseInt(range[2]))

ReturnedNumber == Done("CardNumber") /\ ~result.threw /\ result.v # <<>>

WellFormedNumber(s) ==
  /\ \A i \in 1..Len(s) : IsDigit(s[i])
  /\ LengthsInclude(IF options.lengths = <<>> THEN DefaultLengths
                    ELSE options.lengths[1], Len(s))
  /\ LuhnValidate(s)

\* C26: a string CardNumber returns has digits only, as many as one of the
\* option lengths (12 to 19 by default), passes the Luhn validation and, when
\* iins is given, starts with one of its entries.
C26_ReturnedCardNumber ==
  ReturnedNumber =>
    /\ WellFormedNumber(result.v[1])
    /\ options.iins # <<>> =>
         \E i \in 1..Len(options.iins[1]) :
           StartsWithEntry(result.v[1], options.iins[1][i])

\* The same of the calls whose regular expressions have every alternative
\* pinned to the start.
C26_WithEveryAlternativePinned ==
  ReturnedNumber =>
    /\ WellFormedNumber(result.v[1])
    /\ /\ options.iins # <<>>
       /\ \A i \in 1..Len(options.iins[1]) :
            \A j \in 1..Len(options.iins[1][i].alts) :
              options.iins[1][i].alts[j].pinned
       => \E i \in 1..Len(options.iins[1]) :
            StartsWithEntry(result.v[1], options.iins[1][i])

====
